---- MODULE Spec2Model ----
\* Free-text categorization and aggregation pipeline of the Nagpur garbage
\* dashboard (src/src/App.js): taxonomy tables, classifiers, aggregators,
\* the waste weight lookup and the single-record pie projection.
EXTENDS Integers, Sequences, FiniteSets, TLC

VARIABLES
  text,   \* argument of a classifier call (a JavaScript value)
  row,    \* argument of a single-record call (a record of the dataset)
  data,   \* argument of an aggregation call (a sequence of records)
  fn,     \* name of the function applied last, "none" before any call
  ret,    \* what that call returned (or the error it raised)
  \* State of the App component:
  json,                        \* what the fetch delivered: the records of the response
  allData,                     \* useState([]): the loaded records
  selectedWards,               \* useState([]): the checked wards, in checking order
  selectedRowIndex,            \* useState(null): null or an index into filteredTableData
  selectedWardsIsUniqueWards,  \* selectedWards is the very array uniqueWards (Object.is)
  fetched,                     \* the fetch of /data_cleaned.json has resolved
  effectPending,               \* selectedWards or allData changed and the effect on them has not run since
  crashed                      \* a render has thrown: the component tree is gone

callVars == <<text, row, data, fn, ret>>

appVars == <<json, allData, selectedWards, selectedRowIndex, selectedWardsIsUniqueWards,
             fetched, effectPending, crashed>>

vars == <<text, row, data, fn, ret, json, allData, selectedWards, selectedRowIndex,
          selectedWardsIsUniqueWards, fetched, effectPending, crashed>>

-----------------------------------------------------------------------------
\* JavaScript values.  A string is the sequence of its UTF-16 code units.

Undefined == [t |-> "undefined"]
Null      == [t |-> "null"]
Str(s)    == [t |-> "string", s |-> s]
Num(n)    == [t |-> "number", n |-> n]
Bool(b)   == [t |-> "boolean", b |-> b]

Arr(a)    == [t |-> "array", a |-> a]     \* an array: the sequence of its elements
Obj(o)    == [t |-> "object", o |-> o]    \* a plain object: its entries in property order

\* Outcome of a call that raises ("x.toLowerCase is not a function", ...).
TypeError == [t |-> "TypeError"]

IsString(v) == v.t = "string"

\* ToBoolean: what `if (v)`, `v || w` and `v && w` test.
Truthy(v) ==
  CASE v.t = "string"  -> v.s /= <<>>
    [] v.t = "number"  -> v.n /= 0
    [] v.t = "boolean" -> v.b
    [] OTHER           -> FALSE

\* a || b
Or(a, b) == IF Truthy(a) THEN a ELSE b

\* Numbers that are not integers (3.5, count / total * 100, 100 / 8) are kept
\* as exact fractions num/den with den > 0; rounding of the IEEE double
\* arithmetic is not represented.  A division by zero does not raise: its
\* result (NaN for 0 / 0, Infinity otherwise) is the fraction of denominator 0.
Rat(n, d)  == [num |-> n, den |-> d]

RECURSIVE GCD(_, _)
GCD(a, b) == IF b = 0 THEN a ELSE GCD(b, a % b)

\* The sum is kept in lowest terms so that long sums stay small.
RAdd(a, b) ==
  LET n == a.num * b.den + b.num * a.den
      d == a.den * b.den
      g == GCD(d, n)
  IN  Rat(n \div g, d \div g)
RMul(a, b) == Rat(a.num * b.num, a.den * b.den)
RDiv(a, b) == Rat(a.num * b.den, a.den * b.num)
REq(a, b)  == a.num * b.den = b.num * a.den
RLess(a, b) == a.num * b.den < b.num * a.den

\* String.prototype.toLowerCase on one code unit.  The inputs and tables hold
\* ASCII and Devanagari only; Devanagari has no case.
LowerUnit(c) == IF c \in 65..90 THEN c + 32 ELSE c
toLowerCase(s) == [i \in 1..Len(s) |-> LowerUnit(s[i])]

\* String.prototype.trim: strips white space and line terminators at both ends.
WhiteSpace == {9, 10, 11, 12, 13, 32, 160, 5760, 8232, 8233, 8239, 8287, 12288, 65279}
                \cup (8192..8202)

RECURSIVE trimStart(_)
trimStart(s) ==
  IF s /= <<>> /\ Head(s) \in WhiteSpace THEN trimStart(Tail(s)) ELSE s

RECURSIVE trimEnd(_)
trimEnd(s) ==
  IF s /= <<>> /\ s[Len(s)] \in WhiteSpace
  THEN trimEnd(SubSeq(s, 1, Len(s) - 1))
  ELSE s

trim(s) == trimEnd(trimStart(s))

\* String.prototype.includes: k occurs in s as a contiguous substring.
includes(s, k) ==
  \E i \in 0..(Len(s) - Len(k)) : SubSeq(s, i + 1, i + Len(k)) = k

-----------------------------------------------------------------------------
\* Taxonomy tables.

\* categoryMap (App.js:522-606); every string is its sequence of UTF-16 code units.
categoryMap ==
  <<
    \* 1: "Nearby Households"
    [ category |-> <<78, 101, 97, 114, 98, 121, 32, 72, 111, 117, 115, 101, 104, 111, 108, 100, 115>>,
      keywords |-> <<
        <<110, 101, 97, 114, 98, 121, 32, 104, 111, 117, 115, 101, 104, 111, 108, 100>>,  \* "nearby household"
        <<104, 111, 117, 115, 101, 32, 104, 111, 108>>,  \* "house hol"
        <<104, 111, 117, 115, 101, 104, 111, 108, 100, 115>>,  \* "households"
        <<99, 111, 108, 111, 110, 121, 32, 112, 101, 111, 112, 108, 101>>,  \* "colony people"
        <<98, 97, 110, 103, 108, 111, 119, 32, 119, 97, 108, 101, 32, 108, 111, 103>>,  \* "banglow wale log"
        <<2332, 2357, 2355, 32, 2346, 2366, 2360>>,  \* "\u091c\u0935\u0933 \u092a\u093e\u0938"
        <<2360, 2379, 2360, 2366, 2351, 2335, 2368>>  \* "\u0938\u094b\u0938\u093e\u092f\u091f\u0940"
      >> ],
    \* 2: "Vendors / Small Stalls"
    [ category |-> <<86, 101, 110, 100, 111, 114, 115, 32, 47, 32, 83, 109, 97, 108, 108, 32, 83, 116, 97, 108, 108, 115>>,
      keywords |-> <<
        <<118, 101, 110, 100, 111, 114>>,  \* "vendor"
        <<115, 116, 97, 108, 108>>,  \* "stall"
        <<115, 104, 111, 112>>,  \* "shop"
        <<99, 104, 97, 105, 32, 119, 97, 108, 101>>,  \* "chai wale"
        <<109, 97, 114, 107, 101, 116, 32, 119, 97, 108, 101>>,  \* "market wale"
        <<115, 116, 114, 101, 101, 116, 32, 118, 101, 110, 100, 111, 114>>  \* "street vendor"
      >> ],
    \* 3: "People from Outside"
    [ category |-> <<80, 101, 111, 112, 108, 101, 32, 102, 114, 111, 109, 32, 79, 117, 116, 115, 105, 100, 101>>,
      keywords |-> <<
        <<111, 117, 116, 115, 105, 100, 101>>,  \* "outside"
        <<2348, 2366, 2361, 2375, 2352, 2370, 2344>>,  \* "\u092c\u093e\u0939\u0947\u0930\u0942\u0928"
        <<2346, 2352, 2381, 2351, 2335, 2325>>,  \* "\u092a\u0930\u094d\u092f\u091f\u0915"
        <<111, 117, 116, 115, 105, 100, 101, 114>>,  \* "outsider"
        <<118, 105, 115, 105, 116, 111, 114>>  \* "visitor"
      >> ],
    \* 4: "Passing Crowd / Vehicle People"
    [ category |-> <<80, 97, 115, 115, 105, 110, 103, 32, 67, 114, 111, 119, 100, 32, 47, 32, 86, 101, 104, 105, 99, 108, 101, 32, 80, 101, 111, 112, 108, 101>>,
      keywords |-> <<
        <<2327, 2366, 2337, 2368>>,  \* "\u0917\u093e\u0921\u0940"
        <<2332, 2366, 2339, 2381, 2351, 2366, 32, 2351, 2375, 2339, 2366, 2353, 2381, 2351, 2366>>,  \* "\u091c\u093e\u0923\u094d\u092f\u093e \u092f\u0947\u0923\u093e\u0931\u094d\u092f\u093e"
        <<2321, 2335, 2379>>,  \* "\u0911\u091f\u094b"
        <<118, 101, 104, 105, 99, 108, 101>>,  \* "vehicle"
        <<112, 97, 115, 115, 105, 110, 103>>  \* "passing"
      >> ],
    \* 5: "Households and Vendors Mixed"
    [ category |-> <<72, 111, 117, 115, 101, 104, 111, 108, 100, 115, 32, 97, 110, 100, 32, 86, 101, 110, 100, 111, 114, 115, 32, 77, 105, 120, 101, 100>>,
      keywords |-> <<
        <<104, 111, 117, 115, 101, 104, 111, 108, 100, 115, 32, 44, 32, 112, 101, 111, 112, 108, 101, 32, 102, 114, 111, 109, 32, 111, 117, 116, 115, 105, 100, 101, 32, 44, 32, 115, 116, 114, 101, 101, 116, 32, 118, 101, 110, 100, 111, 114, 115>>,  \* "households , people from outside , street vendors"
        <<118, 101, 110, 100, 111, 114, 32, 97, 110, 100, 32, 104, 111, 117, 115, 101, 104, 111, 108, 100, 115>>,  \* "vendor and households"
        <<112, 101, 111, 112, 108, 101, 32, 97, 110, 100, 32, 104, 111, 117, 115, 101, 104, 111, 108, 100, 115>>,  \* "people and households"
        <<109, 105, 120, 101, 100>>  \* "mixed"
      >> ],
    \* 6: "Construction Waste"
    [ category |-> <<67, 111, 110, 115, 116, 114, 117, 99, 116, 105, 111, 110, 32, 87, 97, 115, 116, 101>>,
      keywords |-> <<
        <<99, 111, 110, 115, 116, 114, 117, 99, 116, 105, 111, 110>>,  \* "construction"
        <<114, 101, 112, 97, 105, 114>>,  \* "repair"
        <<2325, 2366, 2350>>,  \* "\u0915\u093e\u092e"
        <<2348, 2366, 2306, 2343, 2325, 2366, 2350>>  \* "\u092c\u093e\u0902\u0927\u0915\u093e\u092e"
      >> ],
    \* 7: "Showrooms / Commercial Establishments"
    [ category |-> <<83, 104, 111, 119, 114, 111, 111, 109, 115, 32, 47, 32, 67, 111, 109, 109, 101, 114, 99, 105, 97, 108, 32, 69, 115, 116, 97, 98, 108, 105, 115, 104, 109, 101, 110, 116, 115>>,
      keywords |-> <<
        <<115, 104, 111, 119, 114, 111, 111, 109>>,  \* "showroom"
        <<99, 111, 109, 109, 101, 114, 99, 105, 97, 108>>  \* "commercial"
      >> ],
    \* 8: "Public Parks / Institutions"
    [ category |-> <<80, 117, 98, 108, 105, 99, 32, 80, 97, 114, 107, 115, 32, 47, 32, 73, 110, 115, 116, 105, 116, 117, 116, 105, 111, 110, 115>>,
      keywords |-> <<
        <<2313, 2342, 2381, 2351, 2366, 2344>>,  \* "\u0909\u0926\u094d\u092f\u093e\u0928"
        <<112, 97, 114, 107>>,  \* "park"
        <<112, 117, 98, 108, 105, 99, 32, 97, 114, 101, 97>>,  \* "public area"
        <<108, 97, 107, 101>>,  \* "lake"
        <<97, 109, 98, 97, 122, 97, 114, 105>>  \* "ambazari"
      >> ],
    \* 9: "Citizens / General Public"
    [ category |-> <<67, 105, 116, 105, 122, 101, 110, 115, 32, 47, 32, 71, 101, 110, 101, 114, 97, 108, 32, 80, 117, 98, 108, 105, 99>>,
      keywords |-> <<
        <<99, 105, 116, 105, 122, 101, 110, 115>>,  \* "citizens"
        <<112, 101, 111, 112, 108, 101>>,  \* "people"
        <<112, 117, 98, 108, 105, 99>>  \* "public"
      >> ],
    \* 10: "Unknown / Not Mentioned"
    [ category |-> <<85, 110, 107, 110, 111, 119, 110, 32, 47, 32, 78, 111, 116, 32, 77, 101, 110, 116, 105, 111, 110, 101, 100>>,
      keywords |-> <<
        <<117, 110, 107, 110, 111, 119, 110>>,  \* "unknown"
        <<2350, 2366, 2361, 2367, 2340, 32, 2344, 2366, 2361, 2368>>,  \* "\u092e\u093e\u0939\u093f\u0924 \u0928\u093e\u0939\u0940"
        <<110>>,  \* "n"
        <<97, 108, 108>>,  \* "all"
        <<100, 111, 110, 116, 32, 107, 110, 111, 119>>  \* "dont know"
      >> ],
    \* 11: "Nearby + Outside Combined"
    [ category |-> <<78, 101, 97, 114, 98, 121, 32, 43, 32, 79, 117, 116, 115, 105, 100, 101, 32, 67, 111, 109, 98, 105, 110, 101, 100>>,
      keywords |-> <<
        <<110, 101, 97, 114, 98, 121, 32, 104, 111, 117, 115, 101, 104, 111, 108, 100, 115, 32, 97, 110, 100, 32, 112, 101, 111, 112, 108, 101, 32, 102, 114, 111, 109, 32, 111, 117, 116, 115, 105, 100, 101>>,  \* "nearby households and people from outside"
        <<2332, 2357, 2355, 32, 2346, 2366, 2360, 32, 2354, 2379, 2325, 2366, 2306, 2344, 2368, 32, 2335, 2366, 2325, 2340, 2366, 2340, 32, 2310, 2339, 2367, 32, 2348, 2366, 2361, 2375, 2352, 2370, 2344, 32, 2351, 2375, 2339, 2366, 2352, 2375, 32, 2346, 2339>>  \* "\u091c\u0935\u0933 \u092a\u093e\u0938 \u0932\u094b\u0915\u093e\u0902\u0928\u0940 \u091f\u093e\u0915\u0924\u093e\u0924 \u0906\u0923\u093f \u092c\u093e\u0939\u0947\u0930\u0942\u0928 \u092f\u0947\u0923\u093e\u0930\u0947 \u092a\u0923"
      >> ],
    \* 12: "Market / Vendor Community"
    [ category |-> <<77, 97, 114, 107, 101, 116, 32, 47, 32, 86, 101, 110, 100, 111, 114, 32, 67, 111, 109, 109, 117, 110, 105, 116, 121>>,
      keywords |-> <<
        <<109, 97, 114, 107, 101, 116>>,  \* "market"
        <<118, 101, 110, 100, 111, 114, 115>>,  \* "vendors"
        <<115, 116, 97, 108, 108>>  \* "stall"
      >> ]
  >>

\* locationMap (App.js:636-685); every string is its sequence of UTF-16 code units.
locationMap ==
  <<
    \* 1: "Residential Area"
    [ category |-> <<82, 101, 115, 105, 100, 101, 110, 116, 105, 97, 108, 32, 65, 114, 101, 97>>,
      keywords |-> <<
        <<114, 101, 115, 105, 100, 101, 110, 116, 105, 97, 108>>,  \* "residential"
        <<99, 111, 108, 111, 110, 121>>,  \* "colony"
        <<104, 111, 117, 115, 101>>,  \* "house"
        <<115, 111, 99, 105, 101, 116, 121>>  \* "society"
      >> ],
    \* 2: "Nallah / Drain"
    [ category |-> <<78, 97, 108, 108, 97, 104, 32, 47, 32, 68, 114, 97, 105, 110>>,
      keywords |-> <<
        <<110, 97, 108, 108, 97, 104>>,  \* "nallah"
        <<100, 114, 97, 105, 110>>  \* "drain"
      >> ],
    \* 3: "Market / Commercial Area"
    [ category |-> <<77, 97, 114, 107, 101, 116, 32, 47, 32, 67, 111, 109, 109, 101, 114, 99, 105, 97, 108, 32, 65, 114, 101, 97>>,
      keywords |-> <<
        <<109, 97, 114, 107, 101, 116, 95, 112, 108, 97, 99, 101>>,  \* "market_place"
        <<109, 97, 114, 107, 101, 116>>,  \* "market"
        <<98, 97, 122, 97, 97, 114>>,  \* "bazaar"
        <<115, 104, 111, 112>>  \* "shop"
      >> ],
    \* 4: "Playground / Open Space"
    [ category |-> <<80, 108, 97, 121, 103, 114, 111, 117, 110, 100, 32, 47, 32, 79, 112, 101, 110, 32, 83, 112, 97, 99, 101>>,
      keywords |-> <<
        <<112, 108, 97, 121, 103, 114, 111, 117, 110, 100>>,  \* "playground"
        <<103, 114, 111, 117, 110, 100>>,  \* "ground"
        <<115, 112, 111, 114, 116, 115>>,  \* "sports"
        <<102, 105, 101, 108, 100>>  \* "field"
      >> ],
    \* 5: "School / Institution"
    [ category |-> <<83, 99, 104, 111, 111, 108, 32, 47, 32, 73, 110, 115, 116, 105, 116, 117, 116, 105, 111, 110>>,
      keywords |-> <<
        <<115, 99, 104, 111, 111, 108>>,  \* "school"
        <<99, 111, 108, 108, 101, 103, 101>>,  \* "college"
        <<105, 110, 115, 116, 105, 116, 117, 116, 105, 111, 110>>  \* "institution"
      >> ],
    \* 6: "Open Plot / Vacant Land"
    [ category |-> <<79, 112, 101, 110, 32, 80, 108, 111, 116, 32, 47, 32, 86, 97, 99, 97, 110, 116, 32, 76, 97, 110, 100>>,
      keywords |-> <<
        <<111, 112, 101, 110, 95, 112, 108, 111, 116>>,  \* "open_plot"
        <<118, 97, 99, 97, 110, 116>>,  \* "vacant"
        <<101, 109, 112, 116, 121, 32, 112, 108, 111, 116>>  \* "empty plot"
      >> ],
    \* 7: "Roadside / Footpath / Public Path"
    [ category |-> <<82, 111, 97, 100, 115, 105, 100, 101, 32, 47, 32, 70, 111, 111, 116, 112, 97, 116, 104, 32, 47, 32, 80, 117, 98, 108, 105, 99, 32, 80, 97, 116, 104>>,
      keywords |-> <<
        <<114, 111, 97, 100>>,  \* "road"
        <<114, 111, 97, 100, 115, 105, 100, 101>>,  \* "roadside"
        <<114, 111, 97, 100, 32, 115, 105, 100, 101>>,  \* "road side"
        <<102, 111, 111, 116, 112, 97, 116, 104>>,  \* "footpath"
        <<99, 111, 114, 110, 101, 114>>,  \* "corner"
        <<115, 113, 117, 97, 114, 101>>,  \* "square"
        <<102, 114, 111, 110, 116, 32, 115, 105, 100, 101>>,  \* "front side"
        <<116, 101, 109, 112, 108, 101>>,  \* "temple"
        <<99, 111, 108, 108, 101, 99, 116, 111, 114, 32, 111, 102, 102, 105, 99, 101>>,  \* "collector office"
        <<110, 101, 97, 114, 32, 115, 97, 100, 97, 114>>,  \* "near sadar"
        <<115, 101, 109>>  \* "sem"
      >> ],
    \* 8: "Water Body / Lake Area"
    [ category |-> <<87, 97, 116, 101, 114, 32, 66, 111, 100, 121, 32, 47, 32, 76, 97, 107, 101, 32, 65, 114, 101, 97>>,
      keywords |-> <<
        <<108, 97, 107, 101>>,  \* "lake"
        <<119, 97, 116, 101, 114>>,  \* "water"
        <<112, 111, 110, 100>>,  \* "pond"
        <<2344, 2342, 2368>>,  \* "\u0928\u0926\u0940"
        <<2354, 2375, 2325>>  \* "\u0932\u0947\u0915"
      >> ],
    \* 9: "Other / Miscellaneous"
    [ category |-> <<79, 116, 104, 101, 114, 32, 47, 32, 77, 105, 115, 99, 101, 108, 108, 97, 110, 101, 111, 117, 115>>,
      keywords |-> <<
        <<111, 116, 104, 101, 114>>,  \* "other"
        <<117, 110, 107, 110, 111, 119, 110>>,  \* "unknown"
        <<109, 105, 115, 99>>  \* "misc"
      >> ]
  >>

\* solutionCategories (App.js:715-769); every string is its sequence of UTF-16 code units.
solutionCategories ==
  <<
    \* 1: "Bins and Facilites"
    [ category |-> <<66, 105, 110, 115, 32, 97, 110, 100, 32, 70, 97, 99, 105, 108, 105, 116, 101, 115>>,
      keywords |-> <<
        <<68, 117, 115, 116, 32, 98, 105, 110, 32, 97, 116, 32, 82, 111, 97, 100, 115, 105, 100, 101>>,  \* "Dust bin at Roadside"
        <<83, 104, 111, 117, 108, 100, 32, 80, 117, 110, 105, 115, 104, 109, 101, 110, 116, 32, 70, 101, 101>>,  \* "Should Punishment Fee"
        <<77, 111, 114, 101, 32, 66, 105, 110, 115>>,  \* "More Bins"
        <<66, 105, 110, 115>>,  \* "Bins"
        <<77, 111, 114, 101, 32, 98, 105, 110, 115>>,  \* "More bins"
        <<77, 111, 114, 101, 32, 66, 105, 110, 115, 32, 65, 119, 97, 114, 101, 110, 101, 115, 115, 32, 65, 109, 111, 110, 103, 32, 80, 101, 111, 112, 108, 101>>,  \* "More Bins Awareness Among People"
        <<68, 117, 115, 116, 98, 105, 110, 115>>,  \* "Dustbins"
        <<65, 100, 100, 32, 97, 32, 98, 111, 97, 114, 100, 32>>,  \* "Add a board "
        <<83, 97, 121, 32, 116, 111, 32, 85, 115, 101, 32, 79, 102, 32, 68, 117, 115, 116, 98, 105, 110>>,  \* "Say to Use Of Dustbin"
        <<65, 100, 100, 32, 68, 117, 115, 116, 98, 105, 110>>,  \* "Add Dustbin"
        <<32, 66, 105, 110, 115, 32, 84, 111, 111>>,  \* " Bins Too"
        <<32, 68, 117, 115, 116, 98, 105, 110, 115, 32, 97, 110, 100, 32, 83, 116, 114, 105, 99, 116, 108, 121, 32, 70, 105, 110, 101>>,  \* " Dustbins and Strictly Fine"
        <<66, 105, 110, 115, 32, 97, 110, 100, 32, 70, 97, 99, 105, 108, 105, 116, 105, 101, 115, 32, 97, 110, 100, 32, 115, 116, 114, 105, 99, 116, 32, 102, 105, 110, 101, 115>>,  \* "Bins and Facilities and strict fines"
        <<73, 110, 99, 114, 101, 97, 115, 105, 110, 103, 32, 111, 102, 32, 68, 117, 115, 116, 98, 105, 110>>  \* "Increasing of Dustbin"
      >> ],
    \* 2: "Technology-Enabled Monitoring"
    [ category |-> <<84, 101, 99, 104, 110, 111, 108, 111, 103, 121, 45, 69, 110, 97, 98, 108, 101, 100, 32, 77, 111, 110, 105, 116, 111, 114, 105, 110, 103>>,
      keywords |-> <<
        <<70, 105, 110, 101, 32, 97, 110, 100, 32, 83, 117, 114, 118, 101, 105, 108, 108, 97, 110, 99, 101, 32, 67, 97, 109, 101, 114, 97, 32, 97, 116, 32, 116, 104, 97, 116, 32, 80, 108, 97, 99, 101>>,  \* "Fine and Surveillance Camera at that Place"
        <<83, 117, 114, 118, 101, 105, 108, 108, 97, 110, 99, 101, 32, 67, 97, 109, 101, 114, 97, 32, 97, 116, 32, 116, 104, 97, 116, 32, 80, 108, 97, 99, 101>>,  \* "Surveillance Camera at that Place"
        <<105, 110, 115, 116, 97, 108, 108, 32, 99, 97, 109, 101, 114, 97, 32, 111, 110, 32, 115, 116, 114, 101, 101, 116, 46>>,  \* "install camera on street."
        <<83, 104, 111, 117, 108, 100, 32, 67, 97, 109, 101, 114, 97, 32, 83, 117, 114, 118, 101, 105, 108, 108, 97, 110, 99, 101>>  \* "Should Camera Surveillance"
      >> ],
    \* 3: "Strict Enforcement Measures "
    [ category |-> <<83, 116, 114, 105, 99, 116, 32, 69, 110, 102, 111, 114, 99, 101, 109, 101, 110, 116, 32, 77, 101, 97, 115, 117, 114, 101, 115, 32>>,
      keywords |-> <<
        <<83, 116, 114, 105, 99, 116, 32, 70, 105, 110, 101, 115>>,  \* "Strict Fines"
        <<115, 116, 114, 105, 99, 116, 108, 121, 32, 102, 105, 110, 101, 32, 102, 111, 114, 32, 112, 101, 111, 112, 108, 101>>,  \* "strictly fine for people"
        <<83, 116, 114, 105, 99, 116, 108, 121, 32, 70, 105, 110, 101>>,  \* "Strictly Fine"
        <<115, 116, 114, 105, 99, 116, 32, 102, 105, 110, 101, 115>>,  \* "strict fines"
        <<97, 110, 100, 32, 115, 116, 114, 105, 99, 116, 108, 121, 32, 102, 105, 110, 101, 32, 102, 111, 114, 32, 112, 101, 111, 112, 108, 101>>  \* "and strictly fine for people"
      >> ],
    \* 4: "Public Awareness & Education "
    [ category |-> <<80, 117, 98, 108, 105, 99, 32, 65, 119, 97, 114, 101, 110, 101, 115, 115, 32, 38, 32, 69, 100, 117, 99, 97, 116, 105, 111, 110, 32>>,
      keywords |-> <<
        <<65, 119, 97, 114, 101, 110, 101, 115, 115, 32, 80, 114, 111, 103, 114, 97, 109>>,  \* "Awareness Program"
        <<65, 119, 97, 114, 101, 110, 101, 115, 115, 32, 65, 109, 111, 110, 103, 32, 80, 101, 111, 112, 108, 101>>,  \* "Awareness Among People"
        <<77, 111, 114, 101, 32, 66, 105, 110, 115, 32, 65, 119, 97, 114, 101, 110, 101, 115, 115, 32, 65, 109, 111, 110, 103, 32, 80, 101, 111, 112, 108, 101>>  \* "More Bins Awareness Among People"
      >> ],
    \* 5: "Sanitization Vehicle Roster"
    [ category |-> <<83, 97, 110, 105, 116, 105, 122, 97, 116, 105, 111, 110, 32, 86, 101, 104, 105, 99, 108, 101, 32, 82, 111, 115, 116, 101, 114>>,
      keywords |-> <<
        <<83, 104, 111, 117, 108, 100, 32, 82, 101, 103, 117, 108, 97, 114, 32, 86, 105, 115, 105, 116, 32, 111, 102, 32, 67, 108, 101, 97, 110, 101, 114, 32, 86, 97, 110, 115>>  \* "Should Regular Visit of Cleaner Vans"
      >> ],
    \* 6: "Regulatory & Administrative Support"
    [ category |-> <<82, 101, 103, 117, 108, 97, 116, 111, 114, 121, 32, 38, 32, 65, 100, 109, 105, 110, 105, 115, 116, 114, 97, 116, 105, 118, 101, 32, 83, 117, 112, 112, 111, 114, 116>>,
      keywords |-> <<
        <<116, 104, 101, 32, 78, 77, 67, 32, 118, 101, 104, 105, 99, 108, 101, 32, 115, 104, 111, 117, 108, 100, 32, 99, 111, 108, 108, 101, 99, 116, 32, 116, 104, 105, 115, 32, 103, 97, 114, 98, 97, 103, 101, 32, 102, 114, 111, 109, 32, 104, 101, 114, 101, 32, 46>>  \* "the NMC vehicle should collect this garbage from here ."
      >> ],
    \* 7: "Efficient Waste Collection System"
    [ category |-> <<69, 102, 102, 105, 99, 105, 101, 110, 116, 32, 87, 97, 115, 116, 101, 32, 67, 111, 108, 108, 101, 99, 116, 105, 111, 110, 32, 83, 121, 115, 116, 101, 109>>,
      keywords |-> <<
        <<80, 114, 111, 112, 101, 114, 32, 115, 99, 104, 101, 100, 117, 108, 101, 32, 102, 111, 114, 32, 99, 111, 108, 108, 101, 99, 116, 105, 111, 110, 32, 118, 101, 104, 105, 99, 108, 101>>,  \* "Proper schedule for collection vehicle"
        <<84, 104, 101, 32, 80, 108, 97, 99, 101, 32, 78, 101, 101, 100, 32, 116, 111, 32, 98, 101, 32, 103, 101, 116, 32, 99, 108, 101, 97, 110, 101, 100, 32, 102, 114, 111, 109, 32, 116, 104, 101, 32, 114, 111, 97, 100, 32, 115, 105, 100, 101, 32, 111, 110, 32, 100, 97, 105, 108, 121, 32, 98, 97, 115, 105, 115, 46>>  \* "The Place Need to be get cleaned from the road side on daily basis."
      >> ],
    \* 8: "Neutral Feedback"
    [ category |-> <<78, 101, 117, 116, 114, 97, 108, 32, 70, 101, 101, 100, 98, 97, 99, 107>>,
      keywords |-> <<
        <<78, 111, 116, 104, 105, 110, 103>>  \* "Nothing"
      >> ]
  >>

-----------------------------------------------------------------------------
\* Classifiers.

DefaultDispose  == <<85, 110, 107, 110, 111, 119, 110, 32, 47, 32, 78, 111, 116, 32, 77, 101, 110, 116, 105, 111, 110, 101, 100>>  \* "Unknown / Not Mentioned"
DefaultLocation == <<79, 116, 104, 101, 114, 32, 47, 32, 77, 105, 115, 99, 101, 108, 108, 97, 110, 101, 111, 117, 115>>  \* "Other / Miscellaneous"

\* keywords.some((k) => lowerText.includes(k.toLowerCase()))
someKeywordLowered(keywords, lowerText) ==
  \E j \in 1..Len(keywords) : includes(lowerText, toLowerCase(keywords[j]))

\* keywords.some((k) => lowerText.includes(k))
someKeyword(keywords, lowerText) ==
  \E j \in 1..Len(keywords) : includes(lowerText, keywords[j])

\* for (const { category, keywords } of categoryMap) { if (...) return category; }
RECURSIVE categorizeLoop(_, _)
categorizeLoop(lowerText, i) ==
  IF i > Len(categoryMap) THEN Str(DefaultDispose)
  ELSE IF someKeywordLowered(categoryMap[i].keywords, lowerText)
       THEN Str(categoryMap[i].category)
       ELSE categorizeLoop(lowerText, i + 1)

\* Variant of categorize that scans the table from its last entry.
RECURSIVE categorizeLoopLast(_, _)
categorizeLoopLast(lowerText, i) ==
  IF i < 1 THEN Str(DefaultDispose)
  ELSE IF someKeywordLowered(categoryMap[i].keywords, lowerText)
       THEN Str(categoryMap[i].category)
       ELSE categorizeLoopLast(lowerText, i - 1)

categorize_lastMatch(v) ==
  IF ~IsString(v) THEN TypeError
  ELSE categorizeLoopLast(trim(toLowerCase(v.s)), Len(categoryMap))

\* text.toLowerCase() raises on anything that is not a string.
categorize(v) ==
  IF ~IsString(v) THEN TypeError
  ELSE categorizeLoop(trim(toLowerCase(v.s)), 1)

RECURSIVE categorizeLocationLoop(_, _)
categorizeLocationLoop(lowerText, i) ==
  IF i > Len(locationMap) THEN Str(DefaultLocation)
  ELSE IF someKeyword(locationMap[i].keywords, lowerText)
       THEN Str(locationMap[i].category)
       ELSE categorizeLocationLoop(lowerText, i + 1)

\* Variant of categorizeLocation that returns null, as categorizeSolution
\* does, when no entry matches.
categorizeLocation_nullFallback(v) ==
  LET t == Or(v, Str(<<>>)) IN
  IF ~IsString(t) THEN TypeError
  ELSE LET lowerText == trim(toLowerCase(t.s)) IN
       IF \A i \in 1..Len(locationMap) : ~someKeyword(locationMap[i].keywords, lowerText)
       THEN Null
       ELSE categorizeLocationLoop(lowerText, 1)

\* (text || "").toLowerCase().trim()
categorizeLocation(v) ==
  LET t == Or(v, Str(<<>>)) IN
  IF ~IsString(t) THEN TypeError
  ELSE categorizeLocationLoop(trim(toLowerCase(t.s)), 1)

RECURSIVE categorizeSolutionLoop(_, _)
categorizeSolutionLoop(lowerText, i) ==
  IF i > Len(solutionCategories) THEN Null
  ELSE IF someKeywordLowered(solutionCategories[i].keywords, lowerText)
       THEN Str(solutionCategories[i].category)
       ELSE categorizeSolutionLoop(lowerText, i + 1)

categorizeSolution(v) ==
  LET t == Or(v, Str(<<>>)) IN
  IF ~IsString(t) THEN TypeError
  ELSE categorizeSolutionLoop(trim(toLowerCase(t.s)), 1)

-----------------------------------------------------------------------------
\* Inputs of the classifier calls: null, undefined, and every text made of at
\* most MaxFrags fragments.

MaxFrags == 2

Frags ==
  { <<115, 116, 114, 101, 101, 116, 32, 118, 101, 110, 100, 111, 114, 32, 115, 116, 97, 108, 108>>,  \* "street vendor stall"
    <<77, 97, 114, 107, 101, 116>>,                         \* "Market"
    <<32>>,                                                 \* " "
    <<120, 121, 122>>,                                      \* "xyz"
    <<117, 110, 107, 110, 111, 119, 110>>,                  \* "unknown"
    <<80, 97, 114, 107>>,                                   \* "Park"
    <<114, 111, 97, 100>>,                                  \* "road"
    <<111, 116, 104, 101, 114>>,                            \* "other"
    <<77, 111, 114, 101, 32, 66, 105, 110, 115>>,           \* "More Bins"
    <<78, 47, 65>>,                                         \* "N/A"
    <<83, 116, 114, 105, 99, 116, 32, 70, 105, 110, 101, 115>>,  \* "Strict Fines"
    <<99, 111, 108, 111, 110, 121>>,                        \* "colony"
    <<2327, 2366, 2337, 2368>>,                             \* "\u0917\u093e\u0921\u0940"
    <<65, 100, 100, 32, 97, 32, 98, 111, 97, 114, 100, 32>> \* "Add a board "
  }

RECURSIVE Join(_)
Join(fs) == IF fs = <<>> THEN <<>> ELSE Head(fs) \o Join(Tail(fs))

Texts == { Join(fs) : fs \in UNION { [1..n -> Frags] : n \in 0..MaxFrags } }

TextInputs == { Str(s) : s \in Texts } \cup {Null, Undefined}

NoRow == [f \in {} |-> Undefined]

\* The App component once mounted: the initial values of its useState hooks,
\* the mount effects run (the fetch is started, the selection reset is a
\* no-op).
AppMounted ==
  /\ json = <<>>
  /\ allData = <<>>
  /\ selectedWards = <<>>
  /\ selectedRowIndex = Null
  /\ selectedWardsIsUniqueWards = FALSE
  /\ fetched = FALSE
  /\ effectPending = FALSE
  /\ crashed = FALSE

InitClassify ==
  /\ AppMounted
  /\ text \in TextInputs
  /\ row = NoRow
  /\ data = <<>>
  /\ fn = "none"
  /\ ret = Undefined

CallCategorize ==
  /\ fn = "none"
  /\ fn' = "categorize"
  /\ ret' = categorize(text)
  /\ UNCHANGED <<text, row, data>>
  /\ UNCHANGED appVars

CallCategorizeLocation ==
  /\ fn = "none"
  /\ fn' = "categorizeLocation"
  /\ ret' = categorizeLocation(text)
  /\ UNCHANGED <<text, row, data>>
  /\ UNCHANGED appVars

CallCategorizeSolution ==
  /\ fn = "none"
  /\ fn' = "categorizeSolution"
  /\ ret' = categorizeSolution(text)
  /\ UNCHANGED <<text, row, data>>
  /\ UNCHANGED appVars

NextClassify ==
  \/ CallCategorize
  \/ CallCategorizeLocation
  \/ CallCategorizeSolution

SpecClassify == InitClassify /\ [][NextClassify]_vars

-----------------------------------------------------------------------------
\* Records of the dataset.  A record is a function from the field names it
\* holds to JavaScript values; reading a field it does not hold gives undefined.

Get(r, f) == IF f \in DOMAIN r THEN r[f] ELSE Undefined

\* Plain objects used as counters: the entries in property (insertion) order.
\* No key of the program is an integer index, so Object.keys, Object.values
\* and Object.entries enumerate in insertion order.
ObjHas(o, k) == \E i \in 1..Len(o) : o[i].key = k

\* o[k] = (o[k] || 0) + 1
ObjInc(o, k) ==
  IF ObjHas(o, k)
  THEN [i \in 1..Len(o) |-> IF o[i].key = k
                            THEN [key |-> k, count |-> o[i].count + 1]
                            ELSE o[i]]
  ELSE Append(o, [key |-> k, count |-> 1])

\* Object.values(o).reduce((sum, count) => sum + count, 0)
RECURSIVE SumCounts(_)
SumCounts(o) == IF o = <<>> THEN 0 ELSE Head(o).count + SumCounts(Tail(o))

\* Variant of Percent that leaves out the factor 100.
Percent_noScale(count, totalCount) ==
  IF totalCount > 0 THEN RDiv(Rat(count, 1), Rat(totalCount, 1)) ELSE Rat(0, 1)

\* Variant of Percent that leaves out the division by the total.
Percent_perCount(count, totalCount) ==
  IF totalCount > 0 THEN Rat(count * 100, 1) ELSE Rat(0, 1)

\* Variant of Percent without the `totalCount > 0` test.
Percent_unguarded(count, totalCount) ==
  RMul(RDiv(Rat(count, 1), Rat(totalCount, 1)), Rat(100, 1))

\* totalCount > 0 ? (count / totalCount) * 100 : 0
Percent(count, totalCount) ==
  IF totalCount > 0
  THEN RMul(RDiv(Rat(count, 1), Rat(totalCount, 1)), Rat(100, 1))
  ELSE Rat(0, 1)

\* .sort((a, b) => b.value - a.value): Array.prototype.sort is stable, so
\* entries of equal value keep their relative order.
RECURSIVE InsertDesc(_, _)
InsertDesc(x, s) ==
  IF s = <<>> THEN <<x>>
  ELSE IF RLess(x.value, Head(s).value)
       THEN <<Head(s)>> \o InsertDesc(x, Tail(s))
       ELSE <<x>> \o s

\* Variant of SortDesc that is not stable: an entry is placed after the
\* entries of equal value that followed it.
RECURSIVE InsertAfterTies(_, _)
InsertAfterTies(x, s) ==
  IF s = <<>> THEN <<x>>
  ELSE IF RLess(Head(s).value, x.value)
       THEN <<x>> \o s
       ELSE <<Head(s)>> \o InsertAfterTies(x, Tail(s))

RECURSIVE SortDesc_unstable(_)
SortDesc_unstable(s) ==
  IF s = <<>> THEN <<>> ELSE InsertAfterTies(Head(s), SortDesc_unstable(Tail(s)))

RECURSIVE SortDesc(_)
SortDesc(s) == IF s = <<>> THEN <<>> ELSE InsertDesc(Head(s), SortDesc(Tail(s)))

\* .slice(0, n)
Slice0(s, n) == SubSeq(s, 1, IF Len(s) < n THEN Len(s) ELSE n)

-----------------------------------------------------------------------------
\* Waste weight and the flag-based breakdowns.

Q_below_500_kg   == <<98, 101, 108, 111, 119, 95, 53, 48, 48, 95, 107, 103>>          \* "below_500_kg"
Q_some_100_kg    == <<115, 111, 109, 101, 95, 49, 48, 48, 95, 107, 103>>              \* "some_100_kg"
Q_500kg_1_tonne  == <<95, 53, 48, 48, 107, 103, 95, 49, 95, 116, 111, 110, 110, 101>> \* "_500kg_1_tonne"
Q_above_1_tonne  == <<97, 98, 111, 118, 101, 95, 49, 95, 116, 111, 110, 110, 101>>    \* "above_1_tonne"

\* Variant of getWasteWeight with the weights of two buckets exchanged.
getWasteWeight_swapped(quantity) ==
  CASE quantity = Str(Q_below_500_kg)  -> Rat(15, 2)
    [] quantity = Str(Q_some_100_kg)   -> Rat(1, 1)
    [] quantity = Str(Q_500kg_1_tonne) -> Rat(7, 2)
    [] quantity = Str(Q_above_1_tonne) -> Rat(10, 1)
    [] OTHER                           -> Rat(0, 1)

\* switch (quantity) compares with ===.
getWasteWeight(quantity) ==
  CASE quantity = Str(Q_below_500_kg)  -> Rat(7, 2)
    [] quantity = Str(Q_some_100_kg)   -> Rat(1, 1)
    [] quantity = Str(Q_500kg_1_tonne) -> Rat(15, 2)
    [] quantity = Str(Q_above_1_tonne) -> Rat(10, 1)
    [] OTHER                           -> Rat(0, 1)

\* Object.entries(wasteTypeToColumnMap)
wasteTypeToColumnMap ==
  << [type |-> "Organic & Wet",             column |-> "Organic and Wet Waste"],
     [type |-> "Plastic Paper",             column |-> "Plastic Paper Glass Waste"],
     [type |-> "Sanitary & Hazardous",      column |-> "Sanitary and Hazardous Waste"],
     [type |-> "Battery & Bulb",            column |-> "Battery and Bulb Waste"],
     [type |-> "Construction & Demolition", column |-> "Construction and Demolition Waste"],
     [type |-> "Clothes",                   column |-> "Clothes Waste"],
     [type |-> "Carcasses",                 column |-> "Carcasses Waste"],
     [type |-> "Others",                    column |-> "Others"] >>

\* What the forEach over the records adds to the counter of one flag column:
\* the number of records with row[f] === 1 ...
CountOne(d, f) == Cardinality({i \in 1..Len(d) : Get(d[i], f) = Num(1)})

\* ... or with row[f] === 1 || row[f] === true.
CountOneOrTrue(d, f) ==
  Cardinality({i \in 1..Len(d) : Get(d[i], f) = Num(1) \/ Get(d[i], f) = Bool(TRUE)})

\* Variant of calculateWasteTypeCounts without the `counts[key] > 0` filter.
calculateWasteTypeCounts_noFilter(d) ==
  Arr([i \in 1..Len(wasteTypeToColumnMap) |->
        [name  |-> wasteTypeToColumnMap[i].type,
         value |-> Rat(CountOne(d, wasteTypeToColumnMap[i].column), 1)]])

calculateWasteTypeCounts(d) ==
  LET counts == [i \in 1..Len(wasteTypeToColumnMap) |->
                   [key   |-> wasteTypeToColumnMap[i].type,
                    count |-> CountOne(d, wasteTypeToColumnMap[i].column)]]
      Positive(e) == e.count > 0
      kept == SelectSeq(counts, Positive)
  IN  Arr([i \in 1..Len(kept) |-> [name |-> kept[i].key, value |-> Rat(kept[i].count, 1)]])

calculatePieForRow(r) ==
  LET Flagged(e) == Get(r, e.column) = Num(1)
      kept == SelectSeq(wasteTypeToColumnMap, Flagged)
  IN  Arr([i \in 1..Len(kept) |-> [name |-> kept[i].type, value |-> Rat(1, 1)]])

problemsKeys == <<"Bad Odour", "Mosquitos", "Stray Animals", "Congestion", "Other">>

calculateProblemsData(d) ==
  LET problemsCount == [i \in 1..Len(problemsKeys) |->
                          [key |-> problemsKeys[i],
                           count |-> CountOne(d, problemsKeys[i])]]
      totalCount == SumCounts(problemsCount)
  IN  Arr(SortDesc([i \in 1..Len(problemsCount) |->
                     [name  |-> problemsCount[i].key,
                      value |-> Percent(problemsCount[i].count, totalCount)]]))

reasonsKeys ==
  << "No Regular Collection Vehicle", "Random People Throwing Garbage",
     "Due To User Fee", "Mismatch of Vehicle Time", "Due to Narrow Road",
     "Because of Market and Street Vendors" >>

\* Variant of calculateReasonsData with the zero-total fallback of
\* calculateSolutionData: equal shares when nothing is counted.
calculateReasonsData_uniformFallback(d) ==
  LET reasonsCount == [i \in 1..Len(reasonsKeys) |->
                         [key |-> reasonsKeys[i],
                          count |-> CountOneOrTrue(d, reasonsKeys[i])]]
      totalCount == SumCounts(reasonsCount)
  IN  IF totalCount = 0
      THEN Arr([i \in 1..Len(reasonsKeys) |->
                 [name |-> reasonsKeys[i], value |-> RDiv(Rat(100, 1), Rat(Len(reasonsKeys), 1))]])
      ELSE Arr(SortDesc([i \in 1..Len(reasonsCount) |->
                          [name  |-> reasonsCount[i].key,
                           value |-> Percent(reasonsCount[i].count, totalCount)]]))

calculateReasonsData(d) ==
  LET reasonsCount == [i \in 1..Len(reasonsKeys) |->
                         [key |-> reasonsKeys[i],
                          count |-> CountOneOrTrue(d, reasonsKeys[i])]]
      totalCount == SumCounts(reasonsCount)
  IN  Arr(SortDesc([i \in 1..Len(reasonsCount) |->
                     [name  |-> reasonsCount[i].key,
                      value |-> Percent(reasonsCount[i].count, totalCount)]]))

-----------------------------------------------------------------------------
\* Inputs of the aggregation calls.

MaxRows    == 2   \* records in a record set enumerated exhaustively
MaxRepeats == 1   \* repeated records in a record set that observes every category

FlagValues == {Num(1), Bool(TRUE), Num(0)}

WasteRows ==
  { ("Organic and Wet Waste" :> a) @@ ("Clothes Waste" :> b) : a, b \in FlagValues }

ProblemRows ==
  { ("Bad Odour" :> a) @@ ("Congestion" :> b) : a, b \in FlagValues }

ReasonRows ==
  { ("Due To User Fee" :> a) @@ ("Due to Narrow Road" :> b) : a, b \in FlagValues }

FlagRows == WasteRows \cup ProblemRows \cup ReasonRows

\* Six records with pairwise different disposal and setting categories.
TopRows ==
  { ("Who Dispose" :> Str(<<115, 116, 114, 101, 101, 116, 32, 118, 101, 110, 100, 111, 114, 32, 115, 116, 97, 108, 108>>))  \* "street vendor stall"
      @@ ("In_what_setting_is_the_GVP_pre" :> Str(<<99, 111, 108, 111, 110, 121>>)),      \* "colony"
    ("Who Dispose" :> Str(<<78, 101, 97, 114, 98, 121, 32, 72, 111, 117, 115, 101, 104, 111, 108, 100>>))  \* "Nearby Household"
      @@ ("Location Type" :> Str(<<110, 97, 108, 108, 97, 104>>)),                        \* "nallah"
    ("Who Dispose" :> Str(<<111, 117, 116, 115, 105, 100, 101, 114>>))                    \* "outsider"
      @@ ("In_what_setting_is_the_GVP_pre" :> Str(<<>>))                                  \* ""
      @@ ("Location Type" :> Null)
      @@ ("other" :> Str(<<77, 97, 114, 107, 101, 116>>)),                                \* "Market"
    ("Who Dispose" :> Str(<<112, 97, 115, 115, 105, 110, 103>>))                          \* "passing"
      @@ ("Location Type" :> Str(<<112, 108, 97, 121, 103, 114, 111, 117, 110, 100>>)),   \* "playground"
    ("Who Dispose" :> Str(<<80, 97, 114, 107>>))                                          \* "Park"
      @@ ("In_what_setting_is_the_GVP_pre" :> Str(<<115, 99, 104, 111, 111, 108>>)),      \* "school"
    ("Who Dispose" :> Null)
  }

SolutionColumns ==
  << "Solution Suggested by Interviewee1",
     "Solution Suggested by Interviewee2",
     "Solution Suggested by Interviewee3" >>

S_More_Bins    == <<77, 111, 114, 101, 32, 66, 105, 110, 115>>                  \* "More Bins"
S_NA           == <<78, 47, 65>>                                                \* "N/A"
S_Strict_Fines == <<83, 116, 114, 105, 99, 116, 32, 70, 105, 110, 101, 115>>    \* "Strict Fines"

SolutionRows ==
  { (SolutionColumns[1] :> a) @@ (SolutionColumns[2] :> b) @@ (SolutionColumns[3] :> c) :
      a \in { Str(S_More_Bins), Str(<<120, 121, 122>>),      \* "xyz"
              Str(<<32, 78, 47, 65, 32>>), Undefined },      \* " N/A "
      b \in { Str(S_NA), Str(S_Strict_Fines), Null },
      c \in { Str(<<>>), Str(<<32>>), Str(S_More_Bins),      \* "", " "
              Str(<<78, 111, 116, 104, 105, 110, 103>>) } }  \* "Nothing"

\* Records of the survey as the dashboard loads them.
form_for_gvp == <<102, 111, 114, 109, 95, 102, 111, 114, 95, 103, 118, 112>>  \* "form_for_gvp"

AppRows ==
  { ("GVP Ward" :> Num(2)) @@ ("Type_of_Form" :> Str(form_for_gvp))
      @@ ("GVP Latitude" :> Num(21)) @@ ("GVP Longitude" :> Num(79))
      @@ ("Approx Waste Quantity Found at GVP" :> Str(Q_below_500_kg))
      @@ ("Organic and Wet Waste" :> Num(1))
      @@ ("Who Dispose" :> Str(<<80, 97, 114, 107>>)),                          \* "Park"
    ("GVP Ward" :> Num(1)) @@ ("Type_of_Form" :> Str(form_for_gvp))
      @@ ("GVP Latitude" :> Num(21)) @@ ("GVP Longitude" :> Num(79))
      @@ ("Approx Waste Quantity Found at GVP" :> Str(Q_above_1_tonne))
      @@ ("Clothes Waste" :> Num(1)) @@ ("Bad Odour" :> Num(1)),
    ("GVP Ward" :> Num(1)) @@ ("Type_of_Form" :> Str(form_for_gvp))
      @@ ("GVP Latitude" :> Num(21)) @@ ("GVP Longitude" :> Num(79))
      @@ ("Approx Waste Quantity Found at GVP" :> Str(Q_some_100_kg))
      @@ ("Due To User Fee" :> Bool(TRUE))
      @@ (SolutionColumns[1] :> Str(S_More_Bins)),
    ("GVP Ward" :> Null) @@ ("Type_of_Form" :> Str(form_for_gvp))
      @@ ("GVP Latitude" :> Num(22)) @@ ("GVP Longitude" :> Num(79))
      @@ ("Approx Waste Quantity Found at GVP" :> Str(Q_500kg_1_tonne))
      @@ ("Location Type" :> Str(<<110, 97, 108, 108, 97, 104>>)),                      \* "nallah"
    ("GVP Ward" :> Num(2)) @@ ("Type_of_Form" :> Str(<<102, 111, 114, 109, 95, 102, 111, 114, 95, 105, 110, 116, 101, 114, 97, 99, 116, 105, 111, 110>>))    \* "form_for_interaction"
      @@ ("GVP Latitude" :> Num(23)) @@ ("GVP Longitude" :> Num(79))
      @@ ("Approx Waste Quantity Found at GVP" :> Str(Q_above_1_tonne))
      @@ ("Organic and Wet Waste" :> Num(1)),
    ("GVP Ward" :> Num(3)) @@ ("Type_of_Form" :> Str(form_for_gvp))
      @@ ("Approx Waste Quantity Found at GVP" :> Null)
      @@ ("Mosquitos" :> Num(1)) }

\* Records whose free-text fields hold a number or a boolean instead of a
\* string; the last one holds falsy values only.
MalformedRows ==
  { ("Who Dispose" :> Num(5)),
    ("Who Dispose" :> Bool(TRUE)),
    ("Location Type" :> Num(5)),
    ("In_what_setting_is_the_GVP_pre" :> Null) @@ ("other" :> Bool(TRUE)),
    (SolutionColumns[1] :> Str(S_More_Bins)) @@ (SolutionColumns[2] :> Num(5)),
    ("Who Dispose" :> Num(0)) @@ ("Location Type" :> Bool(FALSE))
      @@ (SolutionColumns[3] :> Num(0)) }

SeqsUpTo(S, n) == UNION { [1..m -> S] : m \in 0..n }

\* The record sets in which every record of TopRows occurs, hence six
\* categories are observed, with at most MaxRepeats further records.
FullTopSets ==
  UNION { { d \in [1..n -> TopRows] : { d[i] : i \in 1..n } = TopRows } :
            n \in Cardinality(TopRows)..(Cardinality(TopRows) + MaxRepeats) }

\* A record set of more than 100 records that carry the same waste flag.
ManyFlagged ==
  [i \in 1..101 |-> ("Organic and Wet Waste" :> Num(1)) @@ ("Clothes Waste" :> Num(0))]

DataInputs ==
  {ManyFlagged} \cup
  SeqsUpTo(FlagRows, MaxRows) \cup SeqsUpTo(SolutionRows, MaxRows)
    \cup SeqsUpTo(TopRows, MaxRows) \cup FullTopSets
    \cup SeqsUpTo(MalformedRows, MaxRows)

-----------------------------------------------------------------------------
\* Free-text breakdowns.

\* row["Who Dispose"] || ""
disposeValue(r) == Or(Get(r, "Who Dispose"), Str(<<>>))

\* row["In_what_setting_is_the_GVP_pre"] || row["Location Type"] || row["other"] || ""
settingValue(r) ==
  Or(Or(Or(Get(r, "In_what_setting_is_the_GVP_pre"), Get(r, "Location Type")),
        Get(r, "other")), Str(<<>>))

AllRows == FlagRows \cup SolutionRows \cup TopRows \cup MalformedRows \cup AppRows

SolutionCellValues ==
  { Get(r, SolutionColumns[c]) : r \in AllRows, c \in 1..Len(SolutionColumns) }

\* The classifiers are pure: their values on the field values of the record
\* sets above are tabulated once.
categorizeTable == [v \in { disposeValue(r) : r \in AllRows } |-> categorize(v)]
categorizeLocationTable == [v \in { settingValue(r) : r \in AllRows } |-> categorizeLocation(v)]
categorizeSolutionTable == [v \in SolutionCellValues |-> categorizeSolution(v)]

categorizeOf(v) == IF v \in DOMAIN categorizeTable THEN categorizeTable[v] ELSE categorize(v)
categorizeLocationOf(v) ==
  IF v \in DOMAIN categorizeLocationTable THEN categorizeLocationTable[v] ELSE categorizeLocation(v)
categorizeSolutionOf(v) ==
  IF v \in DOMAIN categorizeSolutionTable THEN categorizeSolutionTable[v] ELSE categorizeSolution(v)

\* data.forEach((row) => { ...; disposeCount[category] = (disposeCount[category] || 0) + 1; })
\* An error raised by categorize ends the whole call.
disposeStep(disposeCount, r) ==
  LET category == categorizeOf(disposeValue(r)) IN
  IF category = TypeError THEN TypeError
  ELSE Obj(ObjInc(disposeCount, category.s))

\* The forEach over records lo..hi: the records of the first half in order,
\* then those of the second half, which keeps the evaluation shallow on
\* long record sets.
RECURSIVE disposeCountRange(_, _, _, _)
disposeCountRange(d, lo, hi, disposeCount) ==
  IF lo > hi THEN Obj(disposeCount)
  ELSE IF lo = hi THEN disposeStep(disposeCount, d[lo])
  ELSE LET mid == (lo + hi) \div 2
           first == disposeCountRange(d, lo, mid, disposeCount)
       IN  IF first = TypeError THEN TypeError
           ELSE disposeCountRange(d, mid + 1, hi, first.o)

disposeCountLoop(d, i, disposeCount) == disposeCountRange(d, i, Len(d), disposeCount)

\* Object.entries(count).map(...).sort(...)
PercentEntries(count) ==
  LET totalCount == SumCounts(count) IN
  SortDesc([i \in 1..Len(count) |->
             [name |-> count[i].key, value |-> Percent(count[i].count, totalCount)]])

\* Variant of calculateWhoDisposeData that truncates before it sorts.
calculateWhoDisposeData_sliceFirst(d) ==
  LET disposeCount == disposeCountLoop(d, 1, <<>>) IN
  IF disposeCount = TypeError THEN TypeError
  ELSE LET count == disposeCount.o
           totalCount == SumCounts(count)
       IN  Arr(SortDesc(Slice0([i \in 1..Len(count) |->
                                 [name |-> count[i].key,
                                  value |-> Percent(count[i].count, totalCount)]], 5)))

calculateWhoDisposeData(d) ==
  LET disposeCount == disposeCountLoop(d, 1, <<>>) IN
  IF disposeCount = TypeError THEN TypeError
  ELSE Arr(Slice0(PercentEntries(disposeCount.o), 5))

settingStep(settingCount, r) ==
  LET category == categorizeLocationOf(settingValue(r)) IN
  IF category = TypeError THEN TypeError
  ELSE Obj(ObjInc(settingCount, category.s))

RECURSIVE settingCountRange(_, _, _, _)
settingCountRange(d, lo, hi, settingCount) ==
  IF lo > hi THEN Obj(settingCount)
  ELSE IF lo = hi THEN settingStep(settingCount, d[lo])
  ELSE LET mid == (lo + hi) \div 2
           first == settingCountRange(d, lo, mid, settingCount)
       IN  IF first = TypeError THEN TypeError
           ELSE settingCountRange(d, mid + 1, hi, first.o)

settingCountLoop(d, i, settingCount) == settingCountRange(d, i, Len(d), settingCount)

calculateSettingData(d) ==
  LET settingCount == settingCountLoop(d, 1, <<>>) IN
  IF settingCount = TypeError THEN TypeError
  ELSE Arr(Slice0(PercentEntries(settingCount.o), 5))

\* Variant of solutionCountInit that starts from the empty object, as
\* disposeCount and settingCount do.
solutionCountInit_empty == <<>>

\* solutionCategories.reduce((acc, { category }) => { acc[category] = 0; return acc; }, {})
solutionCountInit ==
  [i \in 1..Len(solutionCategories) |-> [key |-> solutionCategories[i].category, count |-> 0]]

\* Variant of solutionColumnStep without the `if (category)` test: an
\* unmatched value is counted under the key "null".
solutionColumnStep_countNull(solutionCount, solutionValue) ==
  IF ~Truthy(solutionValue) THEN Obj(solutionCount)
  ELSE IF ~IsString(solutionValue) THEN TypeError
  ELSE IF trim(solutionValue.s) /= <<>> /\ solutionValue /= Str(S_NA)
       THEN LET category == categorizeSolutionOf(solutionValue) IN
            IF Truthy(category) THEN Obj(ObjInc(solutionCount, category.s))
            ELSE Obj(ObjInc(solutionCount, <<110, 117, 108, 108>>))
       ELSE Obj(solutionCount)

\* One column of one record:
\*   if (solutionValue && solutionValue.trim() !== "" && solutionValue !== "N/A") {
\*     const category = categorizeSolution(solutionValue);
\*     if (category) solutionCount[category] = (solutionCount[category] || 0) + 1; }
\* A truthy value that is not a string has no trim method.
solutionColumnStep(solutionCount, solutionValue) ==
  IF ~Truthy(solutionValue) THEN Obj(solutionCount)
  ELSE IF ~IsString(solutionValue) THEN TypeError
  ELSE IF trim(solutionValue.s) /= <<>> /\ solutionValue /= Str(S_NA)
       THEN LET category == categorizeSolutionOf(solutionValue) IN
            IF Truthy(category) THEN Obj(ObjInc(solutionCount, category.s))
            ELSE Obj(solutionCount)
       ELSE Obj(solutionCount)

\* Variant of solutionRowLoop that leaves the record at its first counted
\* column.
RECURSIVE solutionRowLoop_once(_, _, _)
solutionRowLoop_once(r, c, solutionCount) ==
  IF c > Len(SolutionColumns) THEN Obj(solutionCount)
  ELSE LET next == solutionColumnStep(solutionCount, Get(r, SolutionColumns[c])) IN
       IF next = TypeError THEN TypeError
       ELSE IF next.o /= solutionCount THEN next
       ELSE solutionRowLoop_once(r, c + 1, next.o)

\* columns.forEach((col) => ...) on one record, from column c on.
RECURSIVE solutionRowLoop(_, _, _)
solutionRowLoop(r, c, solutionCount) ==
  IF c > Len(SolutionColumns) THEN Obj(solutionCount)
  ELSE LET next == solutionColumnStep(solutionCount, Get(r, SolutionColumns[c])) IN
       IF next = TypeError THEN TypeError
       ELSE solutionRowLoop(r, c + 1, next.o)

\* Variant of solutionCountLoop that counts a record at most once.
RECURSIVE solutionCountLoop_oncePerRecord(_, _, _, _)
solutionCountLoop_oncePerRecord(d, i, c, solutionCount) ==
  IF i > Len(d) THEN Obj(solutionCount)
  ELSE LET next == solutionRowLoop_once(d[i], c, solutionCount) IN
       IF next = TypeError THEN TypeError
       ELSE solutionCountLoop_oncePerRecord(d, i + 1, 1, next.o)

\* The forEach over records lo..hi, every column of each.
RECURSIVE solutionCountRange(_, _, _, _)
solutionCountRange(d, lo, hi, solutionCount) ==
  IF lo > hi THEN Obj(solutionCount)
  ELSE IF lo = hi THEN solutionRowLoop(d[lo], 1, solutionCount)
  ELSE LET mid == (lo + hi) \div 2
           first == solutionCountRange(d, lo, mid, solutionCount)
       IN  IF first = TypeError THEN TypeError
           ELSE solutionCountRange(d, mid + 1, hi, first.o)

\* data.forEach((row) => columns.forEach((col) => ...)): position i of the
\* record loop, position c of the column loop.
solutionCountLoop(d, i, c, solutionCount) ==
  IF i > Len(d) THEN Obj(solutionCount)
  ELSE LET next == solutionRowLoop(d[i], c, solutionCount) IN
       IF next = TypeError THEN TypeError
       ELSE solutionCountRange(d, i + 1, Len(d), next.o)

\* Variant of calculateSolutionData without the `totalCount === 0` branch.
calculateSolutionData_noFallback(d) ==
  LET solutionCount == solutionCountLoop(d, 1, 1, solutionCountInit) IN
  IF solutionCount = TypeError THEN TypeError
  ELSE Arr(PercentEntries(solutionCount.o))

calculateSolutionData(d) ==
  LET solutionCount == solutionCountLoop(d, 1, 1, solutionCountInit) IN
  IF solutionCount = TypeError THEN TypeError
  ELSE IF SumCounts(solutionCount.o) = 0
       THEN Arr([i \in 1..Len(solutionCategories) |->
                  [name |-> solutionCategories[i].category, value |-> RDiv(Rat(100, 1), Rat(8, 1))]])
       ELSE Arr(PercentEntries(solutionCount.o))

-----------------------------------------------------------------------------
\* Specification of the single-record calls.

QuantityValues ==
  { Str(Q_below_500_kg), Str(Q_some_100_kg), Str(Q_500kg_1_tonne), Str(Q_above_1_tonne),
    Str(<<117, 110, 107, 110, 111, 119, 110, 95, 98, 117, 99, 107, 101, 116>>),   \* "unknown_bucket"
    Str(<<65, 98, 111, 118, 101, 95, 49, 95, 84, 111, 110, 110, 101>>),           \* "Above_1_Tonne"
    Num(10), Null, Undefined }

RowInputs ==
  { ("Approx Waste Quantity Found at GVP" :> q) @@ ("Organic and Wet Waste" :> a)
      @@ ("Clothes Waste" :> b) @@ ("Others" :> c) :
      q \in QuantityValues, a, b, c \in FlagValues \cup {Undefined} }

InitRow ==
  /\ AppMounted
  /\ text = Undefined
  /\ row \in RowInputs
  /\ data = <<>>
  /\ fn = "none"
  /\ ret = Undefined

CallGetWasteWeight ==
  /\ fn = "none"
  /\ fn' = "getWasteWeight"
  /\ ret' = getWasteWeight(Get(row, "Approx Waste Quantity Found at GVP"))
  /\ UNCHANGED <<text, row, data>>
  /\ UNCHANGED appVars

CallCalculatePieForRow ==
  /\ fn = "none"
  /\ fn' = "calculatePieForRow"
  /\ ret' = calculatePieForRow(row)
  /\ UNCHANGED <<text, row, data>>
  /\ UNCHANGED appVars

NextRow == CallGetWasteWeight \/ CallCalculatePieForRow

SpecRow == InitRow /\ [][NextRow]_vars

-----------------------------------------------------------------------------
\* Specification of the aggregation calls.

InitAggregate ==
  /\ AppMounted
  /\ text = Undefined
  /\ row = NoRow
  /\ data \in DataInputs
  /\ fn = "none"
  /\ ret = Undefined

CallCalculateWasteTypeCounts ==
  /\ fn = "none"
  /\ fn' = "calculateWasteTypeCounts"
  /\ ret' = calculateWasteTypeCounts(data)
  /\ UNCHANGED <<text, row, data>>
  /\ UNCHANGED appVars

CallCalculateProblemsData ==
  /\ fn = "none"
  /\ fn' = "calculateProblemsData"
  /\ ret' = calculateProblemsData(data)
  /\ UNCHANGED <<text, row, data>>
  /\ UNCHANGED appVars

CallCalculateReasonsData ==
  /\ fn = "none"
  /\ fn' = "calculateReasonsData"
  /\ ret' = calculateReasonsData(data)
  /\ UNCHANGED <<text, row, data>>
  /\ UNCHANGED appVars

CallCalculateWhoDisposeData ==
  /\ fn = "none"
  /\ fn' = "calculateWhoDisposeData"
  /\ ret' = calculateWhoDisposeData(data)
  /\ UNCHANGED <<text, row, data>>
  /\ UNCHANGED appVars

CallCalculateSettingData ==
  /\ fn = "none"
  /\ fn' = "calculateSettingData"
  /\ ret' = calculateSettingData(data)
  /\ UNCHANGED <<text, row, data>>
  /\ UNCHANGED appVars

CallCalculateSolutionData ==
  /\ fn = "none"
  /\ fn' = "calculateSolutionData"
  /\ ret' = calculateSolutionData(data)
  /\ UNCHANGED <<text, row, data>>
  /\ UNCHANGED appVars

NextAggregate ==
  \/ CallCalculateWasteTypeCounts
  \/ CallCalculateProblemsData
  \/ CallCalculateReasonsData
  \/ CallCalculateWhoDisposeData
  \/ CallCalculateSettingData
  \/ CallCalculateSolutionData

SpecAggregate == InitAggregate /\ [][NextAggregate]_vars

-----------------------------------------------------------------------------
\* Specification of the flag-based calls: the single-record projection on a
\* record, the three flag aggregations on a record set.

\* Records with a flag that is false.
FalseFlagRows ==
  { ("Organic and Wet Waste" :> Bool(FALSE)) @@ ("Clothes Waste" :> Bool(TRUE)),
    ("Bad Odour" :> Bool(TRUE)) @@ ("Congestion" :> Bool(FALSE)),
    ("Due To User Fee" :> Bool(FALSE)) @@ ("Due to Narrow Road" :> Num(1)) }

InitFlags ==
  /\ AppMounted
  /\ text = Undefined
  /\ \/ row \in RowInputs \cup FalseFlagRows /\ data = <<>>
     \/ row = NoRow /\ data \in SeqsUpTo(FlagRows \cup FalseFlagRows, MaxRows)
  /\ fn = "none"
  /\ ret = Undefined

NextFlags ==
  \/ CallCalculatePieForRow
  \/ CallCalculateWasteTypeCounts
  \/ CallCalculateProblemsData
  \/ CallCalculateReasonsData

SpecFlags == InitFlags /\ [][NextFlags]_vars

-----------------------------------------------------------------------------
\* Specification of the solution-suggestion calls: the classifier on a text,
\* the aggregation on a record set.

InitSolution ==
  /\ AppMounted
  /\ \/ text \in TextInputs /\ data = <<>>
     \/ text = Undefined /\ data \in SeqsUpTo(SolutionRows, MaxRows)
  /\ row = NoRow
  /\ fn = "none"
  /\ ret = Undefined

NextSolution == CallCategorizeSolution \/ CallCalculateSolutionData

SpecSolution == InitSolution /\ [][NextSolution]_vars

-----------------------------------------------------------------------------
\* The App component (App.js:819-961): what a render derives from the state
\* allData, selectedWards, selectedRowIndex, and the handlers.  The tooltip
\* texts, the map view and the dropdown switch are left out.

\* arr[i] for a JavaScript index i (from 0).
At(arr, i) == IF i + 1 \in DOMAIN arr THEN arr[i + 1] ELSE Undefined

\* An element that is a record of the dataset (truthy), not null or undefined.
IsRecord(x) == "t" \notin DOMAIN x

RECURSIVE Digits(_)
Digits(n) == IF n < 10 THEN <<48 + n>> ELSE Digits(n \div 10) \o <<48 + (n % 10)>>

\* String(v) and `${v}`; the numbers of the model are integers.
StringOf(v) ==
  CASE v.t = "string"    -> v.s
    [] v.t = "number"    -> IF v.n < 0 THEN <<45>> \o Digits(-v.n) ELSE Digits(v.n)
    [] v.t = "boolean"   -> IF v.b THEN <<116, 114, 117, 101>> ELSE <<102, 97, 108, 115, 101>>
    [] v.t = "null"      -> <<110, 117, 108, 108>>
    [] v.t = "undefined" -> <<117, 110, 100, 101, 102, 105, 110, 101, 100>>

NaN      == [t |-> "NaN"]
Infinity == [t |-> "Infinity"]

IsDigits(s) == s /= <<>> /\ \A i \in 1..Len(s) : s[i] \in 48..57

RECURSIVE ParseDigits(_)
ParseDigits(s) ==
  IF s = <<>> THEN 0 ELSE ParseDigits(SubSeq(s, 1, Len(s) - 1)) * 10 + (s[Len(s)] - 48)

\* Number(v), for integers and strings of decimal digits with an optional
\* sign; any other non-empty text gives NaN.
ToNumber(v) ==
  CASE v.t = "number"  -> v
    [] v.t = "string"  -> LET s == trim(v.s) IN
                          IF s = <<>> THEN Num(0)
                          ELSE IF IsDigits(s) THEN Num(ParseDigits(s))
                          ELSE IF Head(s) = 45 /\ IsDigits(Tail(s)) THEN Num(0 - ParseDigits(Tail(s)))
                          ELSE IF Head(s) = 43 /\ IsDigits(Tail(s)) THEN Num(ParseDigits(Tail(s)))
                          ELSE NaN
    [] v.t = "boolean" -> Num(IF v.b THEN 1 ELSE 0)
    [] v.t = "null"    -> Num(0)
    [] OTHER           -> NaN

\* x - y < 0 for two results of Number or Infinity; a NaN difference
\* (NaN operand, Infinity - Infinity) is not negative.
DifferenceNegative(x, y) ==
  \/ x.t = "number" /\ y.t = "number" /\ x.n < y.n
  \/ x.t = "number" /\ y.t = "Infinity"

\* The first occurrence of each element (insertion order of a Set).
RECURSIVE SetOrder(_)
SetOrder(s) ==
  IF s = <<>> THEN <<>>
  ELSE LET rest == SetOrder(SubSeq(s, 1, Len(s) - 1))
           last == s[Len(s)]
       IN  IF \E i \in 1..Len(rest) : rest[i] = last THEN rest ELSE Append(rest, last)

\* .sort((a, b) => Number(a) - Number(b)), stable.
RECURSIVE InsertWard(_, _)
InsertWard(w, s) ==
  IF s = <<>> THEN <<w>>
  ELSE IF DifferenceNegative(ToNumber(Str(Head(s))), ToNumber(Str(w)))
       THEN <<Head(s)>> \o InsertWard(w, Tail(s))
       ELSE <<w>> \o s

RECURSIVE SortWards(_)
SortWards(s) == IF s = <<>> THEN <<>> ELSE InsertWard(Head(s), SortWards(Tail(s)))

\* Variant of uniqueWards without the Set: a ward label occurs once for
\* every record that carries it.
uniqueWards_withRepeats(ad) ==
  LET label(r) == LET w == Get(r, "GVP Ward") IN
                  IF w /= Null /\ w /= Undefined THEN Str(StringOf(w)) ELSE Null
      labels == [i \in 1..Len(ad) |-> label(ad[i])]
      kept == SelectSeq(labels, Truthy)
  IN  SortWards([i \in 1..Len(kept) |-> kept[i].s])

\* The ward strings of the loaded records, each once, in numeric order; the
\* records without a ward (null, absent) and the empty ward string give none.
uniqueWards(ad) ==
  LET label(r) == LET w == Get(r, "GVP Ward") IN
                  IF w /= Null /\ w /= Undefined THEN Str(StringOf(w)) ELSE Null
      labels == [i \in 1..Len(ad) |-> label(ad[i])]
      kept == SelectSeq(labels, Truthy)
  IN  SortWards(SetOrder([i \in 1..Len(kept) |-> kept[i].s]))

\* selectedWards.includes(ward)
WardsInclude(sw, ward) == \E i \in 1..Len(sw) : sw[i] = ward

filteredData(ad, sw) ==
  LET Passes(r) == sw = <<>> \/ WardsInclude(sw, StringOf(Get(r, "GVP Ward")))
  IN  SelectSeq(ad, Passes)

IsGvpForm(r) == Get(r, "Type_of_Form") = Str(form_for_gvp)

filteredTableData(ad, sw) == SelectSeq(filteredData(ad, sw), IsGvpForm)

\* selectedRowIndex !== null ? filteredTableData[selectedRowIndex] : null
selectedRow(ad, sw, idx) ==
  IF idx /= Null THEN At(filteredTableData(ad, sw), idx.n) ELSE Null

\* Variant of filteredDataForCards that ignores the selection.
filteredDataForCards_ignoreSelection(ad, sw, idx) == filteredTableData(ad, sw)

\* selectedRow ? [selectedRow] : filteredTableData
filteredDataForCards(ad, sw, idx) ==
  IF IsRecord(selectedRow(ad, sw, idx)) THEN <<selectedRow(ad, sw, idx)>>
  ELSE filteredTableData(ad, sw)

totalGarbagePoints(ad, sw, idx) == Len(filteredDataForCards(ad, sw, idx))

\* rows.reduce((sum, row) => sum + getWasteWeight(row[...]), 0)
RECURSIVE SumWeights(_)
SumWeights(rows) ==
  IF rows = <<>> THEN Rat(0, 1)
  ELSE RAdd(SumWeights(SubSeq(rows, 1, Len(rows) - 1)),
            getWasteWeight(Get(rows[Len(rows)], "Approx Waste Quantity Found at GVP")))

\* Variant of totalHathGadiVolume that sums over the whole table data.
totalHathGadiVolume_overTable(ad, sw, idx) == SumWeights(filteredTableData(ad, sw))

totalHathGadiVolume(ad, sw, idx) == SumWeights(filteredDataForCards(ad, sw, idx))

pieData(ad, sw, idx) ==
  IF IsRecord(selectedRow(ad, sw, idx))
  THEN calculatePieForRow(selectedRow(ad, sw, idx))
  ELSE calculateWasteTypeCounts(filteredDataForCards(ad, sw, idx))

problemsData(ad, sw, idx)   == calculateProblemsData(filteredDataForCards(ad, sw, idx))
reasonsData(ad, sw, idx)    == calculateReasonsData(filteredDataForCards(ad, sw, idx))
whoDisposeData(ad, sw, idx) == calculateWhoDisposeData(filteredDataForCards(ad, sw, idx))
settingData(ad, sw, idx)    == calculateSettingData(filteredDataForCards(ad, sw, idx))
solutionData(ad, sw, idx)   == calculateSolutionData(filteredDataForCards(ad, sw, idx))

\* The data prop of DataTable:
\*   selectedRowIndex !== null ? [filteredTableData[selectedRowIndex]] : filteredDataForCards
dataTableData(ad, sw, idx) ==
  IF idx /= Null THEN <<At(filteredTableData(ad, sw), idx.n)>>
  ELSE filteredDataForCards(ad, sw, idx)

\* a["GVP Ward"] ? Number(a["GVP Ward"]) : Infinity
wardOrder(r) ==
  IF Truthy(Get(r, "GVP Ward")) THEN ToNumber(Get(r, "GVP Ward")) ELSE Infinity

\* .sort((a, b) => wardA - wardB), stable.
RECURSIVE InsertRow(_, _)
InsertRow(r, s) ==
  IF s = <<>> THEN <<r>>
  ELSE IF DifferenceNegative(wardOrder(Head(s)), wardOrder(r))
       THEN <<Head(s)>> \o InsertRow(r, Tail(s))
       ELSE <<r>> \o s

RECURSIVE SortRows(_)
SortRows(s) == IF s = <<>> THEN <<>> ELSE InsertRow(Head(s), SortRows(Tail(s)))

\* DataTable: the rows it displays, tableData.slice(0, 50), where the row at
\* position index calls onRowClick(index).  data.filter reads
\* row["Type_of_Form"], which raises on an element that is undefined.
DataTable(tableProp) ==
  IF \E i \in 1..Len(tableProp) : ~IsRecord(tableProp[i]) THEN TypeError
  ELSE Arr(Slice0(SortRows(SelectSeq(tableProp, IsGvpForm)), 50))

\* The records drawn as markers.
markerRows(ad, sw, idx) ==
  LET shown == IF IsRecord(selectedRow(ad, sw, idx)) THEN <<selectedRow(ad, sw, idx)>>
               ELSE filteredDataForCards(ad, sw, idx)
      HasPosition(r) == Truthy(Get(r, "GVP Latitude")) /\ Truthy(Get(r, "GVP Longitude"))
  IN  SelectSeq(shown, HasPosition)

\* `${row["GVP Latitude"]}-${row["GVP Longitude"]}-${row["GVP Ward"]}`
markerKey(r) ==
  StringOf(Get(r, "GVP Latitude")) \o <<45>> \o StringOf(Get(r, "GVP Longitude"))
    \o <<45>> \o StringOf(Get(r, "GVP Ward"))

\* filteredTableData.findIndex((r) => key(r) === keyOfRow): -1 when none.
findIndexOfKey(rows, keyOfRow) ==
  LET hits == { i \in 1..Len(rows) : markerKey(rows[i]) = keyOfRow }
  IN  IF hits = {} THEN -1 ELSE (CHOOSE i \in hits : \A j \in hits : i <= j) - 1

\* Variant of allDataAfterRender in which the table is put in ward order by
\* sorting the loaded records themselves (allData.sort(...)).
allDataAfterRender_sortInPlace(ad, sw, idx) ==
  IF \A i \in 1..Len(ad) : IsRecord(ad[i]) THEN SortRows(ad) ELSE ad

\* What a render leaves in the allData array.  Every array method the render
\* applies to allData or to an array derived from it builds a new array
\* (map, filter, slice, reduce, forEach, spread); the only method that writes
\* to its receiver is sort, applied to Array.from(wardsSet) (App.js:842), to
\* the copy [...data.filter(...)] (App.js:315) and to the arrays the
\* aggregations build from their counters; no statement assigns to a field
\* of a record.
allDataAfterRender(ad, sw, idx) == ad

\* A render raises when an aggregation raises or DataTable is handed an
\* element that is not a record; no error boundary catches it.
RenderThrows(ad, sw, idx) ==
  \/ whoDisposeData(ad, sw, idx) = TypeError
  \/ settingData(ad, sw, idx) = TypeError
  \/ solutionData(ad, sw, idx) = TypeError
  \/ DataTable(dataTableData(ad, sw, idx)) = TypeError

-----------------------------------------------------------------------------
\* Record sets the fetch can deliver.

MaxLoaded == 3

LoadedInputs == SeqsUpTo(AppRows, MaxLoaded)

-----------------------------------------------------------------------------
\* Specification of the App component.  Every state is a render; React runs
\* a due effect before it handles the next event.  A render that raises is
\* not committed: no effect runs after it and no event is handled.

InitApp ==
  /\ text = Undefined
  /\ row = NoRow
  /\ data = <<>>
  /\ fn = "none"
  /\ ret = Undefined
  /\ AppMounted

\* fetch("/data_cleaned.json").then((res) => res.json()).then((json) => setAllData(json))
FetchResolved ==
  /\ ~fetched /\ ~crashed /\ ~effectPending
  /\ \E response \in LoadedInputs :
       /\ json' = response
       /\ allData' = allDataAfterRender(response, selectedWards, selectedRowIndex)
       /\ crashed' = RenderThrows(response, selectedWards, selectedRowIndex)
  /\ fetched' = TRUE
  /\ selectedWardsIsUniqueWards' = FALSE
  /\ effectPending' = TRUE
  /\ UNCHANGED <<selectedWards, selectedRowIndex>>
  /\ UNCHANGED callVars

\* useEffect(() => { setSelectedRowIndex(null); }, [selectedWards, allData])
ResetSelectionEffect ==
  /\ effectPending /\ ~crashed
  /\ selectedRowIndex' = Null
  /\ effectPending' = FALSE
  /\ crashed' = RenderThrows(allData, selectedWards, Null)
  /\ allData' = allDataAfterRender(allData, selectedWards, Null)
  /\ UNCHANGED <<json, selectedWards, selectedWardsIsUniqueWards, fetched>>
  /\ UNCHANGED callVars

\* A click on the row that DataTable displays at position rowIndex.
handleRowClick ==
  /\ ~crashed /\ ~effectPending
  /\ LET shown == DataTable(dataTableData(allData, selectedWards, selectedRowIndex)) IN
     \E rowIndex \in 0..(Len(shown.a) - 1) :
       /\ selectedRowIndex' = IF selectedRowIndex = Num(rowIndex) THEN Null ELSE Num(rowIndex)
       /\ crashed' = RenderThrows(allData, selectedWards, selectedRowIndex')
  /\ allData' = allDataAfterRender(allData, selectedWards, selectedRowIndex')
  /\ UNCHANGED <<json, selectedWards, selectedWardsIsUniqueWards, fetched, effectPending>>
  /\ UNCHANGED callVars

\* A click on the marker of a displayed record.
handleMarkerClick ==
  /\ ~crashed /\ ~effectPending
  /\ LET shown == markerRows(allData, selectedWards, selectedRowIndex) IN
     \E k \in 1..Len(shown) :
       LET idx == findIndexOfKey(filteredTableData(allData, selectedWards), markerKey(shown[k])) IN
       /\ selectedRowIndex' = IF idx = -1 THEN selectedRowIndex
                              ELSE IF selectedRowIndex = Num(idx) THEN Null
                              ELSE Num(idx)
       /\ crashed' = RenderThrows(allData, selectedWards, selectedRowIndex')
  /\ allData' = allDataAfterRender(allData, selectedWards, selectedRowIndex')
  /\ UNCHANGED <<json, selectedWards, selectedWardsIsUniqueWards, fetched, effectPending>>
  /\ UNCHANGED callVars

\* A click on the checkbox of a ward: checked becomes the opposite of
\* selectedWards.includes(ward).  The updater always builds a new array.
handleWardChange ==
  /\ ~crashed /\ ~effectPending
  /\ LET wards == uniqueWards(allData) IN
     \E k \in 1..Len(wards) :
       LET ward == wards[k]
           isChecked == ~WardsInclude(selectedWards, ward)
           Other(w) == w /= ward
       IN  /\ selectedWards' = IF isChecked THEN Append(selectedWards, ward)
                               ELSE SelectSeq(selectedWards, Other)
           /\ crashed' = RenderThrows(allData, selectedWards', selectedRowIndex)
  /\ selectedWardsIsUniqueWards' = FALSE
  /\ effectPending' = TRUE
  /\ allData' = allDataAfterRender(allData, selectedWards', selectedRowIndex)
  /\ UNCHANGED <<json, selectedRowIndex, fetched>>
  /\ UNCHANGED callVars

\* A click on the "All" checkbox: setSelectedWards(uniqueWards).  Setting the
\* array that is already the state changes nothing and runs no effect.
handleSelectAll ==
  /\ ~crashed /\ ~effectPending
  /\ IF selectedWardsIsUniqueWards
     THEN UNCHANGED <<allData, selectedWards, selectedWardsIsUniqueWards, effectPending, crashed>>
     ELSE /\ selectedWards' = uniqueWards(allData)
          /\ allData' = allDataAfterRender(allData, selectedWards', selectedRowIndex)
          /\ selectedWardsIsUniqueWards' = TRUE
          /\ crashed' = RenderThrows(allData, selectedWards', selectedRowIndex)
          /\ effectPending' = TRUE
  /\ UNCHANGED <<json, selectedRowIndex, fetched>>
  /\ UNCHANGED callVars

NextApp ==
  \/ FetchResolved
  \/ ResetSelectionEffect
  \/ handleRowClick
  \/ handleMarkerClick
  \/ handleWardChange
  \/ handleSelectAll

SpecApp == InitApp /\ [][NextApp]_vars

\* The effect on [selectedWards, allData] runs: setSelectedRowIndex(null),
\* whatever the outcome of the render it causes.  The steps of the component
\* that satisfy it are those of ResetSelectionEffect.
ResetSelection ==
  /\ effectPending /\ ~crashed
  /\ selectedRowIndex' = Null
  /\ effectPending' = FALSE
  /\ crashed' \in BOOLEAN
  /\ UNCHANGED <<json, allData, selectedWards, selectedWardsIsUniqueWards, fetched>>
  /\ UNCHANGED callVars

\* React runs the effects of a committed render before it handles the next
\* event: the selection reset is not postponed for ever.
SpecAppLive == SpecApp /\ WF_vars(ResetSelection)

-----------------------------------------------------------------------------
\* Properties of the classifiers.

\* Entries of a table that have a keyword contained, case-insensitively, in
\* the lower-cased and trimmed string s.
MatchingEntries(table, s) ==
  { i \in 1..Len(table) :
      \E j \in 1..Len(table[i].keywords) :
        includes(trim(toLowerCase(s)), toLowerCase(table[i].keywords[j])) }

FirstOf(S) == CHOOSE i \in S : \A j \in S : i <= j

FirstMatch(table, s, default) ==
  IF MatchingEntries(table, s) = {} THEN default
  ELSE Str(table[FirstOf(MatchingEntries(table, s))].category)

T_street_vendor_stall == <<115, 116, 114, 101, 101, 116, 32, 118, 101, 110, 100, 111, 114, 32, 115, 116, 97, 108, 108>>  \* "street vendor stall"
T_unknown == <<117, 110, 107, 110, 111, 119, 110>>  \* "unknown"

\* C1: each classifier returns the category of the first entry, in declaration
\* order, one of whose keywords is contained (case-insensitively) in the
\* lower-cased, trimmed text; with no matching entry categorize returns
\* "Unknown / Not Mentioned" and categorizeLocation "Other / Miscellaneous";
\* "street vendor stall" gives "Vendors / Small Stalls" (entry 2), not
\* "Market / Vendor Community" (entry 12).
C1_FirstMatchWins ==
  /\ (fn = "categorize" /\ IsString(text))
       => ret = FirstMatch(categoryMap, text.s, Str(DefaultDispose))
  /\ (fn = "categorizeLocation" /\ IsString(text))
       => ret = FirstMatch(locationMap, text.s, Str(DefaultLocation))
  /\ (fn = "categorizeSolution" /\ IsString(text)
        /\ MatchingEntries(solutionCategories, text.s) /= {})
       => ret = FirstMatch(solutionCategories, text.s, Null)
  /\ (fn = "categorize" /\ text = Str(T_street_vendor_stall))
       => /\ ret = Str(categoryMap[2].category)
          /\ ret /= Str(categoryMap[12].category)

\* "street vendor stall" has been classified; entries 2 and 12 both match it.
C1_Witness ==
  /\ fn = "categorize"
  /\ text = Str(T_street_vendor_stall)
  /\ {2, 12} \subseteq MatchingEntries(categoryMap, text.s)
  /\ ret = Str(categoryMap[2].category)

\* C2 as stated: the default category is returned only when no entry matches.
C2_DefaultOnlyWithoutMatch ==
  /\ (fn = "categorize" /\ IsString(text) /\ ret = Str(DefaultDispose))
       => MatchingEntries(categoryMap, text.s) = {}
  /\ (fn = "categorizeLocation" /\ IsString(text) /\ ret = Str(DefaultLocation))
       => MatchingEntries(locationMap, text.s) = {}

\* C2 (amended): the default category is returned when no entry matches and
\* also when the first matching entry is the entry that declares the default
\* category itself (entry 10 of categoryMap, entry 9 of locationMap), and in
\* no other case.
C2_DefaultFallbackOrOwnEntry ==
  /\ categoryMap[10].category = DefaultDispose
  /\ locationMap[9].category = DefaultLocation
  /\ (fn = "categorize" /\ IsString(text))
       => (ret = Str(DefaultDispose)
             <=> \/ MatchingEntries(categoryMap, text.s) = {}
                 \/ FirstOf(MatchingEntries(categoryMap, text.s)) = 10)
  /\ (fn = "categorizeLocation" /\ IsString(text))
       => (ret = Str(DefaultLocation)
             <=> \/ MatchingEntries(locationMap, text.s) = {}
                 \/ FirstOf(MatchingEntries(locationMap, text.s)) = 9)

\* "unknown" has been classified through the keywords of entry 10.
C2_Witness ==
  /\ fn = "categorize"
  /\ text = Str(T_unknown)
  /\ FirstOf(MatchingEntries(categoryMap, text.s)) = 10
  /\ ret = Str(DefaultDispose)

-----------------------------------------------------------------------------
\* Properties of the solution-suggestion aggregation.

\* The (record, column) positions of a record set and the values they hold.
SolutionCells(d) == (1..Len(d)) \X (1..Len(SolutionColumns))
CellValue(d, cell) == Get(d[cell[1]], SolutionColumns[cell[2]])

\* A value that is non-empty, is not "N/A" and is matched by some entry.
Counted(v) ==
  /\ IsString(v)
  /\ v.s /= <<>>
  /\ v.s /= S_NA
  /\ MatchingEntries(solutionCategories, v.s) /= {}

\* The same after trimming.
CountedTrimmed(v) ==
  /\ IsString(v)
  /\ trim(v.s) /= <<>>
  /\ trim(v.s) /= S_NA
  /\ MatchingEntries(solutionCategories, v.s) /= {}

\* Both, and the first matching category, on the values the record sets hold.
CountedValues == { v \in SolutionCellValues : Counted(v) }
CountedTrimmedValues == { v \in SolutionCellValues : CountedTrimmed(v) }
FirstMatchOfValue ==
  [v \in CountedValues \cup CountedTrimmedValues |-> FirstMatch(solutionCategories, v.s, Null)]

CountedCells(d) == { cell \in SolutionCells(d) : CellValue(d, cell) \in CountedValues }

CountedCellsOf(d, category) ==
  { cell \in CountedCells(d) : FirstMatchOfValue[CellValue(d, cell)] = Str(category) }

\* The counters when the scan of the record set ends (App.js:788-803).
solutionCountAfterScan(d) == solutionCountLoop(d, 1, 1, solutionCountInit)

UniformOverSolutionCategories(a) ==
  /\ Len(a) = Len(solutionCategories)
  /\ \A i \in 1..Len(a) :
       /\ a[i].name = solutionCategories[i].category
       /\ REq(a[i].value, Rat(100, Len(solutionCategories)))
       /\ REq(a[i].value, Rat(25, 2))

\* C3: categorizeSolution returns null for a text that no entry matches, and
\* calculateSolutionData counts nothing for such a text: the total count after
\* the scan is the number of (record, column) values that are non-empty, not
\* "N/A" and matched, and the shares are taken over that total.
C3_UnmatchedSolutionNotCounted ==
  /\ (fn = "categorizeSolution" /\ IsString(text)
        /\ MatchingEntries(solutionCategories, text.s) = {})
       => ret = Null
  /\ fn = "calculateSolutionData"
       => LET solutionCount == solutionCountAfterScan(data)
              total == Cardinality(CountedCells(data))
          IN  /\ solutionCount.t = "object"
              /\ SumCounts(solutionCount.o) = total
              /\ ret.t = "array"
              /\ total > 0
                   => \A i \in 1..Len(ret.a) :
                        REq(ret.a[i].value,
                            Rat(100 * Cardinality(CountedCellsOf(data, ret.a[i].name)), total))

\* A record set with a counted value and a non-empty unmatched value has been
\* aggregated.
C3_Witness ==
  /\ fn = "calculateSolutionData"
  /\ CountedCells(data) /= {}
  /\ \E cell \in SolutionCells(data) :
       /\ Truthy(CellValue(data, cell))
       /\ CellValue(data, cell) /= Str(S_NA)
       /\ categorizeSolutionOf(CellValue(data, cell)) = Null
  /\ ret.t = "array"

\* C7: when the total matched count of calculateSolutionData is zero, the
\* result lists every category of solutionCategories with the equal share
\* 100 / (number of categories), which is 12.5 for the 8 declared categories.
C7_ZeroTotalUniformFallback ==
  (fn = "calculateSolutionData" /\ CountedCells(data) = {})
    => /\ ret.t = "array"
       /\ Len(solutionCategories) = 8
       /\ UniformOverSolutionCategories(ret.a)

\* A non-empty record set whose solution values are all skipped or unmatched
\* has been aggregated.
C7_Witness ==
  /\ fn = "calculateSolutionData"
  /\ data /= <<>>
  /\ CountedCells(data) = {}
  /\ \E cell \in SolutionCells(data) : Truthy(CellValue(data, cell))
  /\ UniformOverSolutionCategories(ret.a)

R_MoreBins_NA_Empty ==
  (SolutionColumns[1] :> Str(S_More_Bins)) @@ (SolutionColumns[2] :> Str(S_NA))
    @@ (SolutionColumns[3] :> Str(<<>>))

\* Number of counts one record contributes to one category.
Contribution(r, category) ==
  Cardinality({ c \in 1..Len(SolutionColumns) :
                  /\ Get(r, SolutionColumns[c]) \in CountedTrimmedValues
                  /\ FirstMatchOfValue[Get(r, SolutionColumns[c])] = Str(category) })

RECURSIVE SumContributions(_, _)
SumContributions(d, category) ==
  IF d = <<>> THEN 0
  ELSE Contribution(Head(d), category) + SumContributions(Tail(d), category)

\* C8: a record contributes one count for each of its three solution columns
\* whose trimmed value is non-empty, is not "N/A" and is matched, hence between
\* 0 and 3 counts; the record ("More Bins", "N/A", "") contributes exactly one
\* count, to "Bins and Facilites".
C8_OneCountPerQualifyingColumn ==
  fn = "calculateSolutionData"
    => LET solutionCount == solutionCountAfterScan(data).o IN
       /\ Len(solutionCount) = Len(solutionCategories)
       /\ \A k \in 1..Len(solutionCategories) :
            /\ solutionCount[k].key = solutionCategories[k].category
            /\ solutionCount[k].count = SumContributions(data, solutionCategories[k].category)
       /\ \A i \in 1..Len(data) :
            SumCounts(solutionCountAfterScan(<<data[i]>>).o) \in 0..3
       /\ data = <<R_MoreBins_NA_Empty>>
            => /\ solutionCount[1].count = 1
               /\ SumCounts(solutionCount) = 1
               /\ ret.a[1].name = solutionCategories[1].category
               /\ REq(ret.a[1].value, Rat(100, 1))
               /\ \A i \in 2..Len(ret.a) : REq(ret.a[i].value, Rat(0, 1))

\* The record ("More Bins", "N/A", "") alone has been aggregated.
C8_Witness ==
  /\ fn = "calculateSolutionData"
  /\ data = <<R_MoreBins_NA_Empty>>
  /\ ret.a[1].name = solutionCategories[1].category

-----------------------------------------------------------------------------
\* Properties of the distributions.

RECURSIVE SumValues(_)
SumValues(a) == IF a = <<>> THEN Rat(0, 1) ELSE RAdd(Head(a).value, SumValues(Tail(a)))

Names(a) == { a[i].name : i \in 1..Len(a) }

\* The disposal and the setting category of each record of a record set.
DisposeCategories(d) == [i \in 1..Len(d) |-> categorizeOf(disposeValue(d[i])).s]
SettingCategories(d) == [i \in 1..Len(d) |-> categorizeLocationOf(settingValue(d[i])).s]

\* Categories observed, how often, and where first.
Observed(cats) == { cats[i] : i \in 1..Len(cats) }
CountOf(cats, c) == Cardinality({ i \in 1..Len(cats) : cats[i] = c })
FirstSeen(cats, c) == FirstOf({ i \in 1..Len(cats) : cats[i] = c })

\* Position of a name in a declaration.
IndexIn(names, name) == FirstOf({ k \in 1..Len(names) : names[k] = name })
CategoriesOf(table) == [k \in 1..Len(table) |-> table[k].category]
WasteTypes == [k \in 1..Len(wasteTypeToColumnMap) |-> wasteTypeToColumnMap[k].type]

\* Number of waste-type flags equal to 1 in a record set.
WasteFlagCount(d) ==
  Cardinality({ p \in (1..Len(d)) \X (1..Len(wasteTypeToColumnMap)) :
                  Get(d[p[1]], wasteTypeToColumnMap[p[2]].column) = Num(1) })

SumIs100(a) == REq(SumValues(a), Rat(100, 1))
PositiveSum(a) == RLess(Rat(0, 1), SumValues(a))

\* C4 as stated: for a non-empty record set with a positive total count the
\* values of each of the six distributions sum to 100.
C4_ValuesSumTo100 ==
  (/\ fn \in { "calculateWasteTypeCounts", "calculateProblemsData", "calculateReasonsData",
               "calculateWhoDisposeData", "calculateSettingData", "calculateSolutionData" }
   /\ data /= <<>>
   /\ ret.t = "array"
   /\ PositiveSum(ret.a))
    => SumIs100(ret.a)

\* Sum of a top-5 distribution over records of categories cats: 100 with at
\* most five observed categories, else the share of the records that fall in
\* the five retained categories.
TopFiveSum(cats, a) ==
  LET sum == SumValues(a)
      observed == Cardinality(Observed(cats))
  IN  /\ observed <= 5 => REq(sum, Rat(100, 1))
      /\ observed > 5
           => /\ RLess(sum, Rat(100, 1))
              /\ REq(sum, Rat(100 * Cardinality({ i \in 1..Len(cats) : cats[i] \in Names(a) }),
                              Len(cats)))

\* C4 (amended): with a positive total count the problems, reasons and
\* solution values sum to 100; the disposal and setting values sum to 100 when
\* at most five categories are observed and to less than 100, the share of the
\* five retained categories, otherwise; the waste-type values are raw counts
\* and sum to the total count.
C4_SumOfValues ==
  /\ (/\ fn \in {"calculateProblemsData", "calculateReasonsData", "calculateSolutionData"}
      /\ data /= <<>>
      /\ ret.t = "array"
      /\ PositiveSum(ret.a))
       => SumIs100(ret.a)
  /\ (fn = "calculateWhoDisposeData" /\ data /= <<>> /\ ret.t = "array")
       => TopFiveSum(DisposeCategories(data), ret.a)
  /\ (fn = "calculateSettingData" /\ data /= <<>> /\ ret.t = "array")
       => TopFiveSum(SettingCategories(data), ret.a)
  /\ fn = "calculateWasteTypeCounts"
       => /\ ret.t = "array"
          /\ REq(SumValues(ret.a), Rat(WasteFlagCount(data), 1))

\* A disposal breakdown over more than five observed categories has been
\* computed; its values sum to less than 100.
C4_Witness ==
  /\ fn = "calculateWhoDisposeData"
  /\ Cardinality(Observed(DisposeCategories(data))) > 5
  /\ RLess(SumValues(ret.a), Rat(100, 1))

Min(a, b) == IF a < b THEN a ELSE b

\* The five highest shares of the records of categories cats, in descending
\* order.
TopFive(cats, a) ==
  LET observed == Observed(cats)
      count == [c \in observed |-> CountOf(cats, c)]
  IN  /\ Len(a) = Min(5, Cardinality(observed))
      /\ Cardinality(observed) = 12 => Len(a) = 5
      /\ \A i \in 1..Len(a) :
           /\ a[i].name \in observed
           /\ REq(a[i].value, Rat(100 * count[a[i].name], Len(cats)))
      /\ \A i, j \in 1..Len(a) :
           /\ i /= j => a[i].name /= a[j].name
           /\ i < j => ~RLess(a[i].value, a[j].value)
      /\ \A c \in observed \ Names(a) :
           \A i \in 1..Len(a) : count[c] <= count[a[i].name]

\* C5: calculateWhoDisposeData and calculateSettingData return
\* min(5, number of observed categories) entries, the highest-valued ones of
\* the full distribution in descending order: no omitted category has a value
\* greater than a returned one.
C5_TopFiveHighest ==
  /\ (fn = "calculateWhoDisposeData" /\ ret.t = "array")
       => TopFive(DisposeCategories(data), ret.a)
  /\ (fn = "calculateSettingData" /\ ret.t = "array")
       => TopFive(SettingCategories(data), ret.a)

\* A disposal breakdown over six observed categories has been truncated to
\* five entries, and the category observed last, being the most frequent, is
\* the first of them.
C5_Witness ==
  /\ fn = "calculateWhoDisposeData"
  /\ Len(ret.a) = 5
  /\ LET cats == DisposeCategories(data) IN
     /\ Cardinality(Observed(cats)) = 6
     /\ \A c \in Observed(cats) \ {ret.a[1].name} :
          /\ FirstSeen(cats, c) < FirstSeen(cats, ret.a[1].name)
          /\ CountOf(cats, c) < CountOf(cats, ret.a[1].name)

\* Descending values, ties in the order given by Index.
SortedWithTies(a, Index(_)) ==
  \A i, j \in 1..Len(a) :
    i < j => \/ RLess(a[j].value, a[i].value)
             \/ REq(a[i].value, a[j].value) /\ Index(a[i].name) < Index(a[j].name)

\* C6 as stated: every distribution is sorted in descending order of value,
\* entries of equal value in the declaration order of their table.
C6_SortedTiesInTableOrder ==
  ret.t = "array"
    => /\ fn = "calculateWasteTypeCounts"
            => SortedWithTies(ret.a, LAMBDA n : IndexIn(WasteTypes, n))
       /\ fn = "calculateProblemsData"
            => SortedWithTies(ret.a, LAMBDA n : IndexIn(problemsKeys, n))
       /\ fn = "calculateReasonsData"
            => SortedWithTies(ret.a, LAMBDA n : IndexIn(reasonsKeys, n))
       /\ fn = "calculateWhoDisposeData"
            => SortedWithTies(ret.a, LAMBDA n : IndexIn(CategoriesOf(categoryMap), n))
       /\ fn = "calculateSettingData"
            => SortedWithTies(ret.a, LAMBDA n : IndexIn(CategoriesOf(locationMap), n))
       /\ fn = "calculateSolutionData"
            => SortedWithTies(ret.a, LAMBDA n : IndexIn(CategoriesOf(solutionCategories), n))

\* C6 (amended): the problems, reasons and solution distributions are sorted
\* in descending order of value with ties in declaration order; the disposal
\* and setting distributions are sorted in descending order of value with
\* ties in the order in which the categories are first observed in the
\* records; the waste-type distribution is in wasteTypeToColumnMap order,
\* whatever the values.
C6_SortedTiesInInsertionOrder ==
  ret.t = "array"
    => /\ fn = "calculateProblemsData"
            => SortedWithTies(ret.a, LAMBDA n : IndexIn(problemsKeys, n))
       /\ fn = "calculateReasonsData"
            => SortedWithTies(ret.a, LAMBDA n : IndexIn(reasonsKeys, n))
       /\ fn = "calculateSolutionData"
            => SortedWithTies(ret.a, LAMBDA n : IndexIn(CategoriesOf(solutionCategories), n))
       /\ fn = "calculateWhoDisposeData"
            => LET cats == DisposeCategories(data) IN
               SortedWithTies(ret.a, LAMBDA n : FirstSeen(cats, n))
       /\ fn = "calculateSettingData"
            => LET cats == SettingCategories(data) IN
               SortedWithTies(ret.a, LAMBDA n : FirstSeen(cats, n))
       /\ fn = "calculateWasteTypeCounts"
            => \A i, j \in 1..Len(ret.a) :
                 i < j => IndexIn(WasteTypes, ret.a[i].name) < IndexIn(WasteTypes, ret.a[j].name)

\* A disposal breakdown holds two entries of equal value whose order is the
\* order of first observation and the reverse of the categoryMap order.
C6_Witness ==
  /\ fn = "calculateWhoDisposeData"
  /\ \E i, j \in 1..Len(ret.a) :
       /\ i < j
       /\ REq(ret.a[i].value, ret.a[j].value)
       /\ IndexIn(CategoriesOf(categoryMap), ret.a[i].name)
            > IndexIn(CategoriesOf(categoryMap), ret.a[j].name)
       /\ FirstSeen(DisposeCategories(data), ret.a[i].name)
            < FirstSeen(DisposeCategories(data), ret.a[j].name)

-----------------------------------------------------------------------------
\* Properties of the single-record calls.

\* C9: getWasteWeight maps "below_500_kg" to 3.5, "some_100_kg" to 1,
\* "_500kg_1_tonne" to 7.5, "above_1_tonne" to 10 and everything else,
\* null and absent included, to 0; it never raises.
C9_WeightLookup ==
  fn = "getWasteWeight"
    => LET quantity == Get(row, "Approx Waste Quantity Found at GVP") IN
       /\ DOMAIN ret = {"num", "den"}
       /\ quantity = Str(Q_below_500_kg)  => REq(ret, Rat(35, 10))
       /\ quantity = Str(Q_some_100_kg)   => REq(ret, Rat(1, 1))
       /\ quantity = Str(Q_500kg_1_tonne) => REq(ret, Rat(75, 10))
       /\ quantity = Str(Q_above_1_tonne) => REq(ret, Rat(10, 1))
       /\ quantity \notin { Str(Q_below_500_kg), Str(Q_some_100_kg),
                            Str(Q_500kg_1_tonne), Str(Q_above_1_tonne) }
            => REq(ret, Rat(0, 1))

\* The weight of a record whose quantity is null has been looked up.
C9_Witness ==
  /\ fn = "getWasteWeight"
  /\ Get(row, "Approx Waste Quantity Found at GVP") = Null
  /\ REq(ret, Rat(0, 1))

\* C10: calculatePieForRow returns one entry of value 1 for each waste type
\* whose flag is 1 or true on the record, in wasteTypeToColumnMap order.
C10_OneEntryPerTruthyFlag ==
  fn = "calculatePieForRow"
    => LET Flagged(e) == Get(row, e.column) \in {Num(1), Bool(TRUE)}
           flagged == SelectSeq(wasteTypeToColumnMap, Flagged)
       IN  ret = Arr([i \in 1..Len(flagged) |-> [name |-> flagged[i].type, value |-> Rat(1, 1)]])

-----------------------------------------------------------------------------
\* Error handling of the classifiers and aggregations.

\* C11: each classifier treats a null or absent text as the empty string:
\* categorize returns "Unknown / Not Mentioned", categorizeLocation returns
\* "Other / Miscellaneous", categorizeSolution returns null, and none raises.
C11_NullTextAsEmpty ==
  text \in {Null, Undefined}
    => /\ fn = "categorize"         => ret = Str(DefaultDispose)
       /\ fn = "categorizeLocation" => ret = Str(DefaultLocation)
       /\ fn = "categorizeSolution" => ret = Null

AggregationNames ==
  { "calculateWasteTypeCounts", "calculateProblemsData", "calculateReasonsData",
    "calculateWhoDisposeData", "calculateSettingData", "calculateSolutionData" }

\* C12: no aggregation raises: for every record set, the records whose
\* free-text fields hold null, absent, empty, numeric or boolean values
\* included, every aggregation returns a list of entries.
C12_NoFailingPath ==
  fn \in AggregationNames => ret.t = "array"

\* Number of known categories of each aggregation.
KnownCategories(f) ==
  CASE f = "calculateWasteTypeCounts" -> Len(wasteTypeToColumnMap)
    [] f = "calculateProblemsData"    -> Len(problemsKeys)
    [] f = "calculateReasonsData"     -> Len(reasonsKeys)
    [] f = "calculateWhoDisposeData"  -> Len(categoryMap)
    [] f = "calculateSettingData"     -> Len(locationMap)
    [] f = "calculateSolutionData"    -> Len(solutionCategories)

\* n entries, each of value 100 / n.
UniformOver(a, n) ==
  /\ Len(a) = n
  /\ \A i \in 1..Len(a) : REq(a[i].value, Rat(100, n))

\* Every known name once, in declaration order, each of value 0.
AllZero(a, names) ==
  /\ Len(a) = Len(names)
  /\ \A i \in 1..Len(a) : a[i].name = names[i] /\ REq(a[i].value, Rat(0, 1))

\* C13 as stated: on the empty record set every aggregation returns either
\* the empty sequence or the uniform fallback over all its known categories.
C13_EmptyOrUniform ==
  (fn \in AggregationNames /\ data = <<>>)
    => /\ ret.t = "array"
       /\ \/ ret.a = <<>>
          \/ UniformOver(ret.a, KnownCategories(fn))

\* C13 (amended): on the empty record set the waste-type, disposal and
\* setting aggregations return the empty sequence, the solution aggregation
\* returns the uniform fallback over its 8 categories, and the problems and
\* reasons aggregations return every known category with the value 0.
C13_EmptyRecordSet ==
  (fn \in AggregationNames /\ data = <<>>)
    => /\ ret.t = "array"
       /\ fn \in {"calculateWasteTypeCounts", "calculateWhoDisposeData", "calculateSettingData"}
            => ret.a = <<>>
       /\ fn = "calculateSolutionData"
            => /\ UniformOver(ret.a, 8)
               /\ \A i \in 1..Len(ret.a) : ret.a[i].name = solutionCategories[i].category
       /\ fn = "calculateProblemsData" => AllZero(ret.a, problemsKeys)
       /\ fn = "calculateReasonsData"  => AllZero(ret.a, reasonsKeys)

\* The reasons breakdown of the empty record set has been computed: six
\* entries of value 0.
C13_Witness ==
  /\ fn = "calculateReasonsData"
  /\ data = <<>>
  /\ Len(ret.a) = 6
  /\ \A i \in 1..Len(ret.a) : REq(ret.a[i].value, Rat(0, 1))

\* The result of a division by zero (NaN or Infinity).
IsFinite(x) == x.den /= 0

\* C14: no aggregation divides by a zero total: whatever the record set, no
\* value returned by calculateProblemsData, calculateReasonsData,
\* calculateWhoDisposeData, calculateSettingData or calculateSolutionData is
\* the result of a division by zero, and with a zero total the problems and
\* reasons values are the constant 0 of the guarded branch.
C14_NoDivisionByZero ==
  (/\ fn \in AggregationNames \ {"calculateWasteTypeCounts"}
   /\ ret.t = "array")
    => /\ \A i \in 1..Len(ret.a) : IsFinite(ret.a[i].value)
       /\ (fn = "calculateProblemsData" /\ \A k \in 1..Len(problemsKeys) : CountOne(data, problemsKeys[k]) = 0)
            => \A i \in 1..Len(ret.a) : ret.a[i].value = Rat(0, 1)
       /\ (fn = "calculateReasonsData" /\ \A k \in 1..Len(reasonsKeys) : CountOneOrTrue(data, reasonsKeys[k]) = 0)
            => \A i \in 1..Len(ret.a) : ret.a[i].value = Rat(0, 1)

\* The problems breakdown of a non-empty record set without any problem
\* flag has been computed: the total is zero and every value is 0.
C14_Witness ==
  /\ fn = "calculateProblemsData"
  /\ data /= <<>>
  /\ \A k \in 1..Len(problemsKeys) : CountOne(data, problemsKeys[k]) = 0
  /\ Len(ret.a) = Len(problemsKeys)
  /\ \A i \in 1..Len(ret.a) : ret.a[i].value = Rat(0, 1)

-----------------------------------------------------------------------------
\* Range and shape of the distributions.

InRange(x, lo, hi) == IsFinite(x) /\ ~RLess(x, Rat(lo, 1)) /\ ~RLess(Rat(hi, 1), x)

\* C15 as stated: each value of the waste-type, problems, reasons, disposal,
\* setting and solution breakdowns of a record set lies in [0, 100].
C15_ValuesInPercentRange ==
  (fn \in AggregationNames /\ ret.t = "array")
    => \A i \in 1..Len(ret.a) : InRange(ret.a[i].value, 0, 100)

\* C15 (amended): each value of the problems, reasons, disposal, setting and
\* solution breakdowns lies in [0, 100]; each value of the waste-type
\* breakdown is a count of records, between 1 and the number of records.
C15_PercentOrCount ==
  (fn \in AggregationNames /\ ret.t = "array")
    => \A i \in 1..Len(ret.a) :
         IF fn = "calculateWasteTypeCounts"
         THEN /\ ret.a[i].value.den = 1
              /\ ret.a[i].value.num \in 1..Len(data)
         ELSE InRange(ret.a[i].value, 0, 100)

\* The waste-type breakdown of more than 100 records that carry one flag has
\* been computed: its value is the count, above 100.
C15_Witness ==
  /\ fn = "calculateWasteTypeCounts"
  /\ Len(data) > 100
  /\ Len(ret.a) = 1
  /\ RLess(Rat(100, 1), ret.a[1].value)

SetOf(names) == { names[k] : k \in 1..Len(names) }

\* One entry for every name of a declaration, none twice.
EveryCategoryOnce(a, names) ==
  /\ Len(a) = Len(names)
  /\ Names(a) = SetOf(names)

\* C16 as stated: with a positive total count each of the waste-type,
\* problems and reasons breakdowns holds one entry for every known category
\* of its flag set, the categories of count zero included.
C16_FlagCategoriesAllKept ==
  /\ (fn = "calculateWasteTypeCounts" /\ WasteFlagCount(data) > 0)
       => EveryCategoryOnce(ret.a, WasteTypes)
  /\ (fn = "calculateProblemsData" /\ \E k \in 1..Len(problemsKeys) : CountOne(data, problemsKeys[k]) > 0)
       => EveryCategoryOnce(ret.a, problemsKeys)
  /\ (fn = "calculateReasonsData" /\ \E k \in 1..Len(reasonsKeys) : CountOneOrTrue(data, reasonsKeys[k]) > 0)
       => EveryCategoryOnce(ret.a, reasonsKeys)

\* C16 (amended): the problems and reasons breakdowns hold one entry for
\* every known category, the categories of count zero included (with the
\* value 0); the waste-type breakdown holds one entry for each waste type
\* whose count is positive and none for the others.
C16_FlagCategoriesKeptOrFiltered ==
  /\ fn = "calculateProblemsData"
       => /\ EveryCategoryOnce(ret.a, problemsKeys)
          /\ \A i \in 1..Len(ret.a) :
               CountOne(data, ret.a[i].name) = 0 => REq(ret.a[i].value, Rat(0, 1))
  /\ fn = "calculateReasonsData"
       => /\ EveryCategoryOnce(ret.a, reasonsKeys)
          /\ \A i \in 1..Len(ret.a) :
               CountOneOrTrue(data, ret.a[i].name) = 0 => REq(ret.a[i].value, Rat(0, 1))
  /\ fn = "calculateWasteTypeCounts"
       => LET Counted1(e) == CountOne(data, e.column) > 0
              kept == SelectSeq(wasteTypeToColumnMap, Counted1)
          IN  /\ Len(ret.a) = Len(kept)
              /\ \A i \in 1..Len(kept) : ret.a[i].name = kept[i].type

\* A waste-type breakdown with a positive total has been computed and lacks
\* the types of count zero.
C16_Witness ==
  /\ fn = "calculateWasteTypeCounts"
  /\ WasteFlagCount(data) > 0
  /\ Len(ret.a) \in 1..(Len(wasteTypeToColumnMap) - 1)

IsZero(x) == REq(x, Rat(0, 1))

\* C17 as stated: with a positive total count the disposal, setting and
\* solution breakdowns hold entries of observed categories only: no entry has
\* a count of zero.
C17_OnlyObservedEmitted ==
  /\ (fn = "calculateWhoDisposeData" /\ ret.t = "array" /\ data /= <<>>)
       => \A i \in 1..Len(ret.a) : ~IsZero(ret.a[i].value)
  /\ (fn = "calculateSettingData" /\ ret.t = "array" /\ data /= <<>>)
       => \A i \in 1..Len(ret.a) : ~IsZero(ret.a[i].value)
  /\ (fn = "calculateSolutionData" /\ ret.t = "array" /\ CountedCells(data) /= {})
       => \A i \in 1..Len(ret.a) : ~IsZero(ret.a[i].value)

\* C17 (amended): the disposal and setting breakdowns hold entries of
\* observed categories only, each of positive value; the solution breakdown
\* with a positive total holds every category of solutionCategories, and the
\* value of an entry is 0 exactly when no counted cell falls in its category.
C17_ObservedOrPreseeded ==
  /\ (fn = "calculateWhoDisposeData" /\ ret.t = "array")
       => \A i \in 1..Len(ret.a) :
            /\ ret.a[i].name \in Observed(DisposeCategories(data))
            /\ RLess(Rat(0, 1), ret.a[i].value)
  /\ (fn = "calculateSettingData" /\ ret.t = "array")
       => \A i \in 1..Len(ret.a) :
            /\ ret.a[i].name \in Observed(SettingCategories(data))
            /\ RLess(Rat(0, 1), ret.a[i].value)
  /\ (fn = "calculateSolutionData" /\ ret.t = "array" /\ CountedCells(data) /= {})
       => /\ EveryCategoryOnce(ret.a, CategoriesOf(solutionCategories))
          /\ \A i \in 1..Len(ret.a) :
               IsZero(ret.a[i].value) <=> CountedCellsOf(data, ret.a[i].name) = {}

\* A solution breakdown with a positive total has been computed and holds an
\* entry of value 0.
C17_Witness ==
  /\ fn = "calculateSolutionData"
  /\ CountedCells(data) /= {}
  /\ \E i \in 1..Len(ret.a) : IsZero(ret.a[i].value)
  /\ \E i \in 1..Len(ret.a) : ~IsZero(ret.a[i].value)

-----------------------------------------------------------------------------
\* Flag values.

\* A flag applies when its value is 1 or true.
Applies(v) == v \in {Num(1), Bool(TRUE)}
AppliesCount(d, f) == Cardinality({ i \in 1..Len(d) : Applies(Get(d[i], f)) })

RECURSIVE SumOver(_, _)
SumOver(d, keys) ==
  IF keys = <<>> THEN 0 ELSE AppliesCount(d, Head(keys)) + SumOver(d, Tail(keys))

\* The entries of a percentage breakdown over the flags keys are the shares
\* of the records whose flag applies.
SharesOfApplying(a, d, keys) ==
  /\ EveryCategoryOnce(a, keys)
  /\ \A i \in 1..Len(a) :
       IF SumOver(d, keys) > 0
       THEN REq(a[i].value, Rat(100 * AppliesCount(d, a[i].name), SumOver(d, keys)))
       ELSE IsZero(a[i].value)

\* C18: a flag counts exactly when its value is 1 or true:
\* calculateWasteTypeCounts, calculatePieForRow, calculateProblemsData and
\* calculateReasonsData count a record for a category when the flag is 1 or
\* true and not when it is 0, false or absent.
C18_FlagAppliesWhenOneOrTrue ==
  /\ fn = "calculateWasteTypeCounts"
       => \A k \in 1..Len(wasteTypeToColumnMap) :
            LET n == AppliesCount(data, wasteTypeToColumnMap[k].column) IN
            n > 0 => \E i \in 1..Len(ret.a) :
                       /\ ret.a[i].name = wasteTypeToColumnMap[k].type
                       /\ REq(ret.a[i].value, Rat(n, 1))
  /\ fn = "calculatePieForRow"
       => \A k \in 1..Len(wasteTypeToColumnMap) :
            Applies(Get(row, wasteTypeToColumnMap[k].column))
              <=> \E i \in 1..Len(ret.a) : ret.a[i].name = wasteTypeToColumnMap[k].type
  /\ fn = "calculateProblemsData" => SharesOfApplying(ret.a, data, problemsKeys)
  /\ fn = "calculateReasonsData"  => SharesOfApplying(ret.a, data, reasonsKeys)

-----------------------------------------------------------------------------
\* Properties of the dashboard.

\* The records that pass the ward filter and are garbage-point forms, in
\* loading order.
FilteredSet ==
  LET Passes(r) ==
        /\ \/ selectedWards = <<>>
           \/ \E i \in 1..Len(selectedWards) :
                selectedWards[i] = StringOf(Get(r, "GVP Ward"))
        /\ Get(r, "Type_of_Form") = Str(form_for_gvp)
  IN  SelectSeq(allData, Passes)

\* The record the selection designates, if any.
ActiveSelection ==
  IF selectedRowIndex = Null THEN Null ELSE At(FilteredSet, selectedRowIndex.n)

\* The two cards and the six charts are those of the record set S.
OutputsOver(S) ==
  /\ totalGarbagePoints(allData, selectedWards, selectedRowIndex) = Len(S)
  /\ REq(totalHathGadiVolume(allData, selectedWards, selectedRowIndex), SumWeights(S))
  /\ problemsData(allData, selectedWards, selectedRowIndex) = calculateProblemsData(S)
  /\ reasonsData(allData, selectedWards, selectedRowIndex) = calculateReasonsData(S)
  /\ whoDisposeData(allData, selectedWards, selectedRowIndex) = calculateWhoDisposeData(S)
  /\ settingData(allData, selectedWards, selectedRowIndex) = calculateSettingData(S)
  /\ solutionData(allData, selectedWards, selectedRowIndex) = calculateSolutionData(S)

\* C19 as stated: in every state the count card shows the number of records
\* of the filtered record set, the volume card the sum of their weights, and
\* the six distributions are computed over that same set.
C19_CardsOverFilteredSet ==
  ~crashed
    => /\ OutputsOver(FilteredSet)
       /\ pieData(allData, selectedWards, selectedRowIndex) = calculateWasteTypeCounts(FilteredSet)

\* C19 (amended): with no record selected the cards and the six
\* distributions are computed over the filtered record set; with a record
\* selected the count card shows 1, the volume card that record's weight, and
\* the six distributions are those of that one record.
C19_CardsOverOneSet ==
  ~crashed
    => IF IsRecord(ActiveSelection)
       THEN /\ OutputsOver(<<ActiveSelection>>)
            /\ totalGarbagePoints(allData, selectedWards, selectedRowIndex) = 1
            /\ REq(totalHathGadiVolume(allData, selectedWards, selectedRowIndex),
                   getWasteWeight(Get(ActiveSelection, "Approx Waste Quantity Found at GVP")))
            /\ pieData(allData, selectedWards, selectedRowIndex) = calculatePieForRow(ActiveSelection)
       ELSE /\ OutputsOver(FilteredSet)
            /\ pieData(allData, selectedWards, selectedRowIndex) = calculateWasteTypeCounts(FilteredSet)

\* A record of a filtered set of three records is selected: the count card
\* shows 1 and the volume card less than the weight of the filtered set.
C19_Witness ==
  /\ ~crashed
  /\ IsRecord(ActiveSelection)
  /\ Len(FilteredSet) = 3
  /\ totalGarbagePoints(allData, selectedWards, selectedRowIndex) = 1
  /\ RLess(totalHathGadiVolume(allData, selectedWards, selectedRowIndex), SumWeights(FilteredSet))

\* C20: whenever a record is the active selection the waste-type chart is
\* calculatePieForRow of that record and every other output is computed over
\* that one record; whenever no record is selected the outputs are computed
\* over the whole filtered set.
C20_SelectionDrivesOutputs ==
  ~crashed
    => /\ IsRecord(ActiveSelection)
            => /\ pieData(allData, selectedWards, selectedRowIndex) = calculatePieForRow(ActiveSelection)
               /\ OutputsOver(<<ActiveSelection>>)
       /\ ~IsRecord(ActiveSelection)
            => /\ pieData(allData, selectedWards, selectedRowIndex) = calculateWasteTypeCounts(FilteredSet)
               /\ OutputsOver(FilteredSet)

\* After a ward has been checked and a row clicked, the second record of a
\* filtered set of two is selected and the waste-type chart is its projection.
C20_Witness ==
  /\ ~crashed
  /\ selectedWards /= <<>>
  /\ selectedRowIndex = Num(1)
  /\ Len(FilteredSet) = 2
  /\ FilteredSet[1] /= FilteredSet[2]
  /\ pieData(allData, selectedWards, selectedRowIndex) = calculatePieForRow(FilteredSet[2])
  /\ pieData(allData, selectedWards, selectedRowIndex).a /= <<>>

C22_SelectionIndexValid ==
  /\ ~crashed
  /\ selectedRowIndex /= Null
       => selectedRowIndex.n \in 0..(Len(filteredTableData(allData, selectedWards)) - 1)

\* C23: with no row selected, a click on the table row displayed at position
\* p makes the selected record the record displayed at position p.
C23_ClickSelectsDisplayedRow ==
  [][(handleRowClick /\ selectedRowIndex = Null)
       => selectedRow(allData, selectedWards, selectedRowIndex')
            = At(DataTable(dataTableData(allData, selectedWards, selectedRowIndex)).a,
                 selectedRowIndex'.n)]_vars

\* C24: when a record is selected, a click on its row (the one row the table
\* then displays) clears the selection, whatever index the record had.
C24_RowClickToggles ==
  [][(handleRowClick /\ IsRecord(selectedRow(allData, selectedWards, selectedRowIndex)))
       => selectedRowIndex' = Null]_vars

\* C25: every change of selectedWards or of allData is followed by the reset
\* of selectedRowIndex to null.
C25_FilterChangeResetsSelection == effectPending ~> (selectedRowIndex = Null)

\* C26: a click on the marker of a record r clears the selection when r is
\* the selected record and makes r the selected record otherwise.
C26_MarkerClickSelectsItsRecord ==
  [][\A k \in 1..Len(markerRows(allData, selectedWards, selectedRowIndex)) :
       LET r == markerRows(allData, selectedWards, selectedRowIndex)[k]
           idx == findIndexOfKey(filteredTableData(allData, selectedWards), markerKey(r))
           clicked ==
             /\ handleMarkerClick
             /\ selectedRowIndex' = IF idx = -1 THEN selectedRowIndex
                                    ELSE IF selectedRowIndex = Num(idx) THEN Null
                                    ELSE Num(idx)
       IN  clicked
             => IF selectedRow(allData, selectedWards, selectedRowIndex) = r
                THEN selectedRowIndex' = Null
                ELSE selectedRow(allData, selectedWards, selectedRowIndex') = r]_vars

\* C27: with every ward selected through the "All" checkbox the ward filter
\* passes the same records as with no ward selected: all the loaded records.
C27_SelectAllPassesEverything ==
  (selectedWards = <<>> \/ selectedWardsIsUniqueWards)
    => filteredData(allData, selectedWards) = allData

\* C28: selectedWards never holds a ward twice and holds only wards of
\* uniqueWards; a click on the checkbox of a ward that is not selected adds
\* that ward and nothing else, a click on the checkbox of a selected ward
\* removes that ward and nothing else.
C28_WardSelectionIsASet ==
  /\ [](/\ \A i, j \in 1..Len(selectedWards) : selectedWards[i] = selectedWards[j] => i = j
        /\ SetOf(selectedWards) \subseteq SetOf(uniqueWards(allData)))
  /\ [][handleWardChange
          => \E ward \in SetOf(uniqueWards(allData)) :
               IF ward \in SetOf(selectedWards)
               THEN /\ SetOf(selectedWards') = SetOf(selectedWards) \ {ward}
                    /\ Len(selectedWards') = Len(selectedWards) - 1
               ELSE /\ SetOf(selectedWards') = SetOf(selectedWards) \cup {ward}
                    /\ Len(selectedWards') = Len(selectedWards) + 1]_vars

\* Two of three wards are checked, the first of them checked last.
C28_Witness ==
  /\ ~crashed
  /\ Len(uniqueWards(allData)) = 3
  /\ Len(selectedWards) = 2
  /\ ~selectedWardsIsUniqueWards
  /\ selectedWards[2] = uniqueWards(allData)[1]

-----------------------------------------------------------------------------
\* Properties of the taxonomy tables.

\* The texts that decide whether an entry can be returned at all.  A text is
\* given the category of entry e only if it contains a keyword k of e and no
\* keyword of an earlier entry; whatever contains k contains all that k
\* contains, so e is returned for some text exactly if it is returned for one
\* of its keywords written between two characters "#" that occur in no
\* keyword (trim leaves the blanks of k in place).
Hashed(k) == <<35>> \o k \o <<35>>

\* C29: every entry of categoryMap, locationMap and solutionCategories is
\* the result of its classifier for some text: the text at hand or one of
\* the texts that decide.
C29_EveryCategoryReachable ==
  /\ \A i \in 1..Len(categoryMap) :
       \E t \in {text} \cup { Str(Hashed(k)) : k \in SetOf(categoryMap[i].keywords) } :
         categorize(t) = Str(categoryMap[i].category)
  /\ \A i \in 1..Len(locationMap) :
       \E t \in {text} \cup { Str(Hashed(k)) : k \in SetOf(locationMap[i].keywords) } :
         categorizeLocation(t) = Str(locationMap[i].category)
  /\ \A i \in 1..Len(solutionCategories) :
       \E t \in {text} \cup { Str(Hashed(k)) : k \in SetOf(solutionCategories[i].keywords) } :
         categorizeSolution(t) = Str(solutionCategories[i].category)

\* C30: a classifier called with one of the keywords of an entry e returns
\* the category of e or of an entry declared before e, never the fallback.
C30_KeywordRecognized ==
  /\ fn = "categorize"
       => \A i \in 1..Len(categoryMap) :
            text \in { Str(k) : k \in SetOf(categoryMap[i].keywords) }
              => \E j \in 1..i : ret = Str(categoryMap[j].category)
  /\ fn = "categorizeLocation"
       => \A i \in 1..Len(locationMap) :
            text \in { Str(k) : k \in SetOf(locationMap[i].keywords) }
              => \E j \in 1..i : ret = Str(locationMap[j].category)
  /\ fn = "categorizeSolution"
       => \A i \in 1..Len(solutionCategories) :
            text \in { Str(k) : k \in SetOf(solutionCategories[i].keywords) }
              => \E j \in 1..i : ret = Str(solutionCategories[j].category)

====
